---- MODULE Spec2Model ----
(***************************************************************************)
(* Retrieval layer of locg-api.                                            *)
(*                                                                         *)
(*  - the plain client (src/src/services/locgService.ts, second module,    *)
(*    lines 143-446): getComic with the detail cache, withRetry, the       *)
(*    error classification and the per-attempt abort timer;                *)
(*  - the credentialed client (src/src/services/logcService.ts):           *)
(*    getSessionCookie, the session-credential cache and getComic's        *)
(*    refresh after a 403.                                                 *)
(*                                                                         *)
(* Every async function is cut at its awaits: one action is one            *)
(* uninterrupted synchronous segment of the event loop.  Time is the       *)
(* value Date.now() returns, in milliseconds.                              *)
(***************************************************************************)
EXTENDS Integers, Sequences, FiniteSets, TLC

(***************************************************************************)
(* Bounds of the model.                                                    *)
(***************************************************************************)
MaxAdvances == 2       \* steps of idle time the environment may insert
MaxFaults == 4         \* failed attempts the upstream may cause, over all invocations
MaxCreators == 2       \* elements of one creator section of a detail page
MaxPriceLen == 5       \* characters of a price text
MaxPieces == 4         \* pieces of a markup string

\* The getComic invocations of the plain client, numbered in the order they
\* are made: two, so that they overlap.
Calls == { 1, 2 }

(***************************************************************************)
(* Program constants.                                                      *)
(***************************************************************************)
LOCG_URL == "https://leagueofcomicgeeks.com"
CACHE_TTL == 4 * 24 * 60 * 60 * 1000
REQUEST_TIMEOUT == 30000

\* Mutant of DEFAULT_RETRIES: one retry more by default.
DefaultRetriesPlusOne == 3 + 1

\* retries: number = 3
DEFAULT_RETRIES == 3
BACKOFF_BASE == 1000

(***************************************************************************)
(* Inputs.  variantId "" stands for an absent (falsy) variantId.  The      *)
(* second and third request differ in URL and agree in cache key.          *)
(***************************************************************************)
Requests ==
    { [comicId |-> 1, title |-> "a",   variantId |-> ""],
      [comicId |-> 1, title |-> "a",   variantId |-> "b"],
      [comicId |-> 1, title |-> "a:b", variantId |-> ""] }

\* The getComic(url) invocations of the credentialed client, numbered in the
\* order they are made, and their url.
LogcCalls == { 1, 2 }
LogcUrl == "https://leagueofcomicgeeks.com/comic/6731715/one-world-under-doom-6"

\* sessionCache = null
NoSession == [cookie |-> "", expiresAt |-> 0]

NoResponse == [status |-> 0, statusText |-> ""]
NoHtml == [page |-> "", asOf |-> 0]

\* What the site may answer to a detail request of the credentialed client.
LogcResponses ==
    { [status |-> 200, statusText |-> "OK"],
      [status |-> 403, statusText |-> "Forbidden"],
      [status |-> 404, statusText |-> "Not Found"] }

\* What the site root may answer to the bootstrap request when n sessions
\* have been issued: a new session cookie, other cookies only, no set-cookie
\* header, or an error status.
BootstrapResponses(n) ==
    { [status |-> 200,
       setCookie |-> "ci_session=s" \o ToString(n + 1) \o "; path=/; HttpOnly"],
      [status |-> 200, setCookie |-> "theme=dark; path=/, lang=en; path=/"],
      [status |-> 200, setCookie |-> ""],
      [status |-> 503, setCookie |-> ""] }

\* The idle times the environment may insert in the credentialed client.
SessionDurations == { 10 * 60 * 1000, 30 * 60 * 1000 }

NoRequest == [comicId |-> 0, title |-> "", variantId |-> ""]

\* No outcome of a batch item yet; no response sent yet.
NoOutcome == [kind |-> "none"]
NoReply == [status |-> 0, body |-> << >>]

\* No argument given to a pure function yet.
NoInput == [of |-> "none"]

\* What the upstream may answer to a request: a status line.
Responses ==
    { [status |-> 200, statusText |-> "OK"],
      [status |-> 404, statusText |-> "Not Found"],
      [status |-> 504, statusText |-> "Gateway Timeout"],
      [status |-> 504, statusText |-> "Gateway timeout"] }

\* Messages of the errors fetch() and response.text() reject with.
NetworkMessages == { "fetch failed", "other side closed" }

\* The idle times the environment may insert between two events.
Durations == { REQUEST_TIMEOUT, CACHE_TTL }

Max(a, b) == IF a >= b THEN a ELSE b

(***************************************************************************)
(* Errors: an Error object with its message and the optional status of     *)
(* ApiError (0 = no status).                                               *)
(***************************************************************************)
NoError == [isError |-> FALSE, message |-> "", status |-> 0]

NetworkError(message) == [isError |-> TRUE, message |-> message, status |-> 0]

\* The DOMException fetch() rejects with when controller.abort() fires.
AbortError == [isError |-> TRUE, message |-> "This operation was aborted", status |-> 0]

\* response.ok
ResponseOk(response) == response.status >= 200 /\ response.status <= 299

\* The ApiError getComic builds from a non-ok response.
HttpError(response) ==
    [isError |-> TRUE,
     message |-> "HTTP error! status: " \o ToString(response.status)
                 \o " " \o response.statusText,
     status  |-> response.status]

\* String.prototype.includes
Includes(s, needle) ==
    \E i \in 1..(Len(s) - Len(needle) + 1) :
        SubSeq(s, i, i + Len(needle) - 1) = needle

isRetryableError(error) ==
    IF ~error.isError THEN FALSE
    ELSE LET isDnsError ==
                 \/ Includes(error.message, "EAI_AGAIN")
                 \/ Includes(error.message, "ENOTFOUND")
                 \/ Includes(error.message, "getaddrinfo")
             isTimeout ==
                 \/ Includes(error.message, "timeout")
                 \/ Includes(error.message, "ETIMEDOUT")
                 \/ Includes(error.message, "UND_ERR_CONNECT_TIMEOUT")
                 \/ Includes(error.message, "aborted")
             isConnectionError ==
                 \/ Includes(error.message, "ECONNREFUSED")
                 \/ Includes(error.message, "ECONNRESET")
                 \/ Includes(error.message, "EPIPE")
                 \/ Includes(error.message, "fetch failed")
         IN  isDnsError \/ isTimeout \/ isConnectionError

(***************************************************************************)
(* The detail cache.                                                       *)
(***************************************************************************)
getCacheKey(comicId, title, variantId) ==
    IF variantId # ""
    THEN ToString(comicId) \o ":" \o title \o ":" \o variantId
    ELSE ToString(comicId) \o ":" \o title

\* finalUrl of getComic
ComicUrl(comicId, title, variantId) ==
    LET baseUrl == LOCG_URL \o "/comic/" \o ToString(comicId) \o "/" \o title
    IN  IF variantId # "" THEN baseUrl \o "?variant=" \o variantId ELSE baseUrl

\* The markup the upstream serves for a page: the page's content as of the
\* time it is read.
Upstream(url, t) == [page |-> url, asOf |-> t]

NullData == [html |-> [page |-> "", asOf |-> 0], url |-> ""]

\* Mutant of IsExpired: an entry expires on reaching the TTL.
IsExpiredAtTtl(entry, t) == t - entry.timestamp >= CACHE_TTL

\* now - entry.timestamp > CACHE_TTL
IsExpired(entry, t) == t - entry.timestamp > CACHE_TTL

\* The value getCachedComic returns (NullData for null).
getCachedComic(cache, key, t) ==
    IF key \notin DOMAIN cache THEN NullData
    ELSE IF IsExpired(cache[key], t) THEN NullData
    ELSE cache[key].data

\* Mutant of CacheAfterRead: the read sweeps every expired entry out of the map.
CacheAfterReadSweep(cache, key, t) ==
    LET fresh == { k \in DOMAIN cache : ~IsExpired(cache[k], t) }
    IN  [k \in fresh |-> cache[k]]

\* Mutant of CacheAfterRead: a hit restarts the entry's time to live.
CacheAfterReadTouch(cache, key, t) ==
    IF key \notin DOMAIN cache THEN cache
    ELSE IF IsExpired(cache[key], t) THEN [k \in DOMAIN cache \ {key} |-> cache[k]]
    ELSE [cache EXCEPT ![key].timestamp = t]

\* Mutant of CacheAfterRead: the expired entry is left in the map.
CacheAfterReadKept(cache, key, t) == cache

\* The map getCachedComic leaves behind: an expired entry is deleted.
CacheAfterRead(cache, key, t) ==
    IF key \in DOMAIN cache /\ IsExpired(cache[key], t)
    THEN [k \in DOMAIN cache \ {key} |-> cache[k]]
    ELSE cache

\* Mutant of setCachedComic: the entry is stored without the time of the store.
setCachedComicUnstamped(cache, key, data, t) ==
    [k \in DOMAIN cache \cup {key} |->
        IF k = key THEN [data |-> data, timestamp |-> 0] ELSE cache[k]]

setCachedComic(cache, key, data, t) ==
    [k \in DOMAIN cache \cup {key} |->
        IF k = key THEN [data |-> data, timestamp |-> t] ELSE cache[k]]

(***************************************************************************)
(* withRetry                                                               *)
(***************************************************************************)
\* for (let attempt = 0; attempt <= retries; attempt++)
LoopContinues(attempt, retries) == attempt <= retries

\* Mutant of isLastAttempt: a comparison no attempt of the loop satisfies.
isLastAttemptNever(attempt, retries) == attempt > retries

isLastAttempt(attempt, retries) == attempt = retries

\* Mutant of ShouldRetry: every error is retried until the last attempt.
ShouldRetryAnyError(attempt, retries, error) == ~isLastAttempt(attempt, retries)

\* if (!isLastAttempt && isRetryableError(error))
ShouldRetry(attempt, retries, error) ==
    ~isLastAttempt(attempt, retries) /\ isRetryableError(error)

\* The error after the loop: `Failed after ${retries} retries: ${context}`.
LoopExitError(retries, context) ==
    [isError |-> TRUE,
     message |-> "Failed after " \o ToString(retries) \o " retries: " \o context,
     status  |-> 0]

\* Mutant of BackoffDelay: the exponent is off by one.
BackoffDelayDoubled(attempt) == (2 ^ (attempt + 1)) * BACKOFF_BASE

\* Math.pow(2, attempt) * 1000
BackoffDelay(attempt) == (2 ^ attempt) * BACKOFF_BASE

\* Mutant of Rethrow: the failure is wrapped in a new error.
RethrowGeneric(error) ==
    [isError |-> TRUE, message |-> "Failed to fetch comic", status |-> 0]

\* throw error: what the catch block of withRetry propagates.
Rethrow(error) == error

(***************************************************************************)
(* State of the plain client.                                              *)
(***************************************************************************)
VARIABLES
    now,         \* Date.now()
    ticks,       \* idle steps inserted so far
    comicCache,  \* Map: cache key -> [data, timestamp]
    pc,          \* where each getComic invocation stands
    req,         \* its arguments
    attempt,     \* withRetry's loop counter
    started,     \* when the attempt in flight called fetch() (0 when none)
    wakeAt,      \* when the pending backoff timer fires (0 when none)
    raised,      \* the error caught by withRetry's catch block
    answered,    \* history: response.status of the attempt in flight (0: no response yet)
    thrown,      \* the error getComic rejected with
    result,      \* the value getComic resolved with
    log,         \* history: 0 for a fetch() issued, d > 0 for a backoff sleep of d ms
    evicted      \* history: the data the invocation's cache read evicted

\* State of the credentialed client.
VARIABLES
    sessionCache, \* let sessionCache: SessionCache | null
    issued,       \* sessions the site has issued so far
    cpc,          \* where each getComic(url) invocation stands
    cookies,      \* const cookies
    newCookies,   \* const newCookies
    response1,    \* const response: the first detail response
    cthrown,      \* the error getComic rejected with
    chtml,        \* the html getComic resolved with
    sent,         \* history: the Cookie header of every detail request sent
    boots,        \* history: bootstrap requests the invocation has issued
    cleared       \* history: the sessionCache entry the invocation discarded

plainVars == <<comicCache, pc, req, attempt, started, wakeAt, raised, answered,
               thrown, result, log, evicted>>

credVars == <<sessionCache, issued, cpc, cookies, newCookies, response1, cthrown,
              chtml, sent, boots, cleared>>

\* State of the batch route POST /comic/details.
VARIABLES
    bpc,         \* where the handler stands: "idle", "posted", "responded"
    comicRequests, \* const comicRequests = req.body (an array body's elements)
    settled,     \* what the map callback of each item returned (NoOutcome: not yet)
    reply        \* res.status(...).json(...)

batchVars == <<bpc, comicRequests, settled, reply>>

\* State of the pure functions: what each was given and what it returned.
VARIABLES
    pureIn,      \* the argument
    pureOut      \* the value returned

pureVars == <<pureIn, pureOut>>

vars == <<now, ticks, plainVars, credVars, batchVars, pureVars>>

Terminal == { "success", "failed" }

KeyOf(c) == getCacheKey(req[c].comicId, req[c].title, req[c].variantId)
UrlOf(c) == ComicUrl(req[c].comicId, req[c].title, req[c].variantId)

\* Number of fetch() calls an invocation has issued.
Requested(c) == Cardinality({ i \in 1..Len(log[c]) : log[c][i] = 0 })

RECURSIVE SumSeq(_)
SumSeq(s) == IF s = <<>> THEN 0 ELSE Head(s) + SumSeq(Tail(s))

\* Total backoff an invocation has asked for.
Waited(c) == SumSeq(log[c])

\* setTimeout(() => controller.abort(), 30000): when the abort timer of the
\* attempt in flight fires.  clearTimeout runs when fetch() resolves, so the
\* timer is armed exactly while pc = "fetch".
Deadline(c) == started[c] + REQUEST_TIMEOUT

Init ==
    /\ now = 0
    /\ ticks = 0
    /\ comicCache = << >>
    /\ pc = [c \in Calls |-> "idle"]
    /\ req = [c \in Calls |-> NoRequest]
    /\ attempt = [c \in Calls |-> 0]
    /\ started = [c \in Calls |-> 0]
    /\ wakeAt = [c \in Calls |-> 0]
    /\ raised = [c \in Calls |-> NoError]
    /\ answered = [c \in Calls |-> 0]
    /\ thrown = [c \in Calls |-> NoError]
    /\ result = [c \in Calls |-> NullData]
    /\ log = [c \in Calls |-> << >>]
    /\ evicted = [c \in Calls |-> NullData]
    /\ sessionCache = NoSession
    /\ issued = 0
    /\ cpc = [r \in LogcCalls |-> "idle"]
    /\ cookies = [r \in LogcCalls |-> ""]
    /\ newCookies = [r \in LogcCalls |-> ""]
    /\ response1 = [r \in LogcCalls |-> NoResponse]
    /\ cthrown = [r \in LogcCalls |-> NoError]
    /\ chtml = [r \in LogcCalls |-> NoHtml]
    /\ sent = [r \in LogcCalls |-> << >>]
    /\ boots = [r \in LogcCalls |-> 0]
    /\ cleared = [r \in LogcCalls |-> NoSession]
    /\ bpc = "idle"
    /\ comicRequests = << >>
    /\ settled = [c \in Calls |-> NoOutcome]
    /\ reply = NoReply
    /\ pureIn = NoInput
    /\ pureOut = NoInput

\* Failed attempts so far: every backoff sleep and every failure follows one.
RECURSIVE FaultsOf(_)
FaultsOf(S) ==
    IF S = {} THEN 0
    ELSE LET c == CHOOSE x \in S : TRUE
         IN  Cardinality({ i \in 1..Len(log[c]) : log[c][i] > 0 })
             + (IF pc[c] = "failed" THEN 1 ELSE 0) + FaultsOf(S \ {c})

\* The upstream may still make an attempt fail.
MayFail == FaultsOf(Calls) < MaxFaults

\* No pending timer is overdue at time t: timers fire on time, in order.
NoTimerBefore(t) ==
    \A c \in Calls : /\ pc[c] = "fetch" => t <= Deadline(c)
                     /\ pc[c] = "sleep" => t <= wakeAt[c]

(***************************************************************************)
(* getComic, from the call to its first await: the cache read, and on a    *)
(* miss the first attempt of withRetry up to `await fetch`.                *)
(***************************************************************************)
Call(c, r) ==
    /\ pc[c] = "idle"
    /\ \A b \in Calls : b < c => pc[b] # "idle"
    /\ LET cacheKey == getCacheKey(r.comicId, r.title, r.variantId)
           cached   == getCachedComic(comicCache, cacheKey, now)
       IN  /\ req' = [req EXCEPT ![c] = r]
           /\ comicCache' = CacheAfterRead(comicCache, cacheKey, now)
           /\ evicted' = [evicted EXCEPT ![c] =
                            IF cacheKey \in DOMAIN comicCache
                               /\ cacheKey \notin DOMAIN comicCache'
                            THEN comicCache[cacheKey].data ELSE NullData]
           /\ IF cached # NullData
              THEN /\ pc' = [pc EXCEPT ![c] = "success"]
                   /\ result' = [result EXCEPT ![c] = cached]
                   /\ UNCHANGED <<log, started>>
              ELSE /\ pc' = [pc EXCEPT ![c] = "fetch"]
                   /\ log' = [log EXCEPT ![c] = Append(@, 0)]
                   /\ started' = [started EXCEPT ![c] = now]
                   /\ UNCHANGED result
    /\ UNCHANGED <<now, ticks, attempt, wakeAt, raised, answered, thrown>>
    /\ UNCHANGED <<credVars, batchVars, pureVars>>

(***************************************************************************)
(* The catch block of withRetry, entered at time t with the error the      *)
(* attempt raised; on rethrow getComic's own catch logs and rethrows.      *)
(***************************************************************************)
Catch(c, error, t) ==
    /\ raised' = [raised EXCEPT ![c] = error]
    /\ started' = [started EXCEPT ![c] = 0]
    /\ IF ShouldRetry(attempt[c], DEFAULT_RETRIES, error)
       THEN LET delay == BackoffDelay(attempt[c])
            IN  /\ pc' = [pc EXCEPT ![c] = "sleep"]
                /\ wakeAt' = [wakeAt EXCEPT ![c] = t + delay]
                /\ log' = [log EXCEPT ![c] = Append(@, delay)]
                /\ UNCHANGED thrown
       ELSE /\ pc' = [pc EXCEPT ![c] = "failed"]
            /\ thrown' = [thrown EXCEPT ![c] = Rethrow(error)]
            /\ UNCHANGED <<wakeAt, log>>

\* fetch() rejects with a network error.
FetchRejects(c, message) ==
    /\ pc[c] = "fetch"
    /\ MayFail
    /\ Catch(c, NetworkError(message), now)
    /\ UNCHANGED <<now, ticks, comicCache, req, attempt, answered, result,
                   evicted>>
    /\ UNCHANGED <<credVars, batchVars, pureVars>>

\* The abort timer is due and fires while fetch() is pending: fetch() rejects.
TimeoutAbort(c) ==
    /\ pc[c] = "fetch"
    /\ MayFail
    /\ now >= Deadline(c)
    /\ Catch(c, AbortError, now)
    /\ UNCHANGED <<now, ticks, comicCache, req, attempt, answered, result,
                   evicted>>
    /\ UNCHANGED <<credVars, batchVars, pureVars>>

\* fetch() resolves with the response's head: clearTimeout, then either the
\* ApiError of a non-ok status or `await response.text()`.
FetchResponds(c, response) ==
    /\ pc[c] = "fetch"
    /\ ResponseOk(response) \/ MayFail
    /\ answered' = [answered EXCEPT ![c] = response.status]
    /\ IF ResponseOk(response)
       THEN /\ pc' = [pc EXCEPT ![c] = "body"]
            /\ UNCHANGED <<started, wakeAt, raised, thrown, log>>
       ELSE Catch(c, HttpError(response), now)
    /\ UNCHANGED <<now, ticks, comicCache, req, attempt, result, evicted>>
    /\ UNCHANGED <<credVars, batchVars, pureVars>>

\* response.text() resolves: fn returns, withRetry returns, getComic stores
\* the result and resolves.
BodyRead(c) ==
    /\ pc[c] = "body"
    /\ LET data == [html |-> Upstream(UrlOf(c), now), url |-> UrlOf(c)]
       IN  /\ comicCache' = setCachedComic(comicCache, KeyOf(c), data, now)
           /\ result' = [result EXCEPT ![c] = data]
    /\ pc' = [pc EXCEPT ![c] = "success"]
    /\ started' = [started EXCEPT ![c] = 0]
    /\ UNCHANGED <<now, ticks, req, attempt, wakeAt, raised, answered, thrown,
                   log, evicted>>
    /\ UNCHANGED <<credVars, batchVars, pureVars>>

\* Mutant of BodyFails: the result fetched so far is stored before the error
\* is raised.
BodyFailsPartial(c, message) ==
    /\ pc[c] = "body"
    /\ MayFail
    /\ Catch(c, NetworkError(message), now)
    /\ comicCache' = setCachedComic(comicCache, KeyOf(c),
                         [html |-> Upstream(UrlOf(c), now), url |-> UrlOf(c)], now)
    /\ UNCHANGED <<now, ticks, req, attempt, answered, result, evicted>>
    /\ UNCHANGED <<credVars, batchVars, pureVars>>

\* response.text() rejects.
BodyFails(c, message) ==
    /\ pc[c] = "body"
    /\ MayFail
    /\ Catch(c, NetworkError(message), now)
    /\ UNCHANGED <<now, ticks, comicCache, req, attempt, answered, result,
                   evicted>>
    /\ UNCHANGED <<credVars, batchVars, pureVars>>

\* The backoff timer fires: `continue`, attempt++, then either the next
\* attempt up to `await fetch`, or the end of the loop and the throw after it.
Wake(c) ==
    /\ pc[c] = "sleep"
    /\ NoTimerBefore(wakeAt[c])
    /\ now' = Max(now, wakeAt[c])
    /\ attempt' = [attempt EXCEPT ![c] = @ + 1]
    /\ wakeAt' = [wakeAt EXCEPT ![c] = 0]
    /\ answered' = [answered EXCEPT ![c] = 0]
    /\ IF LoopContinues(attempt'[c], DEFAULT_RETRIES)
       THEN /\ pc' = [pc EXCEPT ![c] = "fetch"]
            /\ started' = [started EXCEPT ![c] = now']
            /\ raised' = [raised EXCEPT ![c] = NoError]
            /\ log' = [log EXCEPT ![c] = Append(@, 0)]
            /\ UNCHANGED thrown
       ELSE /\ pc' = [pc EXCEPT ![c] = "failed"]
            /\ thrown' = [thrown EXCEPT ![c] =
                             LoopExitError(DEFAULT_RETRIES, UrlOf(c))]
            /\ UNCHANGED <<started, raised, log>>
    /\ UNCHANGED <<ticks, comicCache, req, result, evicted>>
    /\ UNCHANGED <<credVars, batchVars, pureVars>>

\* Time passes with nothing happening.
Advance(d) ==
    /\ ticks < MaxAdvances
    /\ NoTimerBefore(now + d)
    /\ now' = now + d
    /\ ticks' = ticks + 1
    /\ UNCHANGED plainVars
    /\ UNCHANGED <<credVars, batchVars, pureVars>>

Next ==
    \/ \E c \in Calls, r \in Requests : Call(c, r)
    \/ \E c \in Calls, m \in NetworkMessages : FetchRejects(c, m)
    \/ \E c \in Calls : TimeoutAbort(c)
    \/ \E c \in Calls, response \in Responses : FetchResponds(c, response)
    \/ \E c \in Calls : BodyRead(c)
    \/ \E c \in Calls, m \in NetworkMessages : BodyFails(c, m)
    \/ \E c \in Calls : Wake(c)
    \/ \E d \in Durations : Advance(d)

Spec == Init /\ [][Next]_vars

(***************************************************************************)
(* Two overlapping requests for the same comic, under the scheduling the   *)
(* runtime guarantees: an attempt in flight always completes (response,    *)
(* error or timeout) and a due backoff timer fires.                        *)
(***************************************************************************)
AttemptEnds(c) ==
    \/ \E m \in NetworkMessages : FetchRejects(c, m)
    \/ TimeoutAbort(c)
    \/ \E response \in Responses : FetchResponds(c, response)
    \/ BodyRead(c)
    \/ \E m \in NetworkMessages : BodyFails(c, m)

LiveNext ==
    \/ \E c \in Calls : Call(c, [comicId |-> 1, title |-> "a", variantId |-> "b"])
    \/ \E c \in Calls : AttemptEnds(c)
    \/ \E c \in Calls : Wake(c)
    \/ Advance(REQUEST_TIMEOUT)

LiveSpec ==
    /\ Init
    /\ [][LiveNext]_vars
    /\ \A c \in Calls : WF_vars(AttemptEnds(c)) /\ WF_vars(Wake(c))

(***************************************************************************)
(* The credentialed client: strings of getSessionCookie.                   *)
(***************************************************************************)
MinOf(S) == CHOOSE x \in S : \A y \in S : x <= y

\* setCookieHeader.match(/ci_session=([^;]+)/): the captured group of the
\* leftmost match, "" when there is no match.
CookieMatch(s) ==
    LET starts == { i \in 1..Len(s) :
                      /\ i + 11 <= Len(s)
                      /\ SubSeq(s, i, i + 10) = "ci_session="
                      /\ SubSeq(s, i + 11, i + 11) # ";" }
    IN  IF starts = {} THEN ""
        ELSE LET i    == MinOf(starts)
                 ends == { j \in (i + 11)..Len(s) : SubSeq(s, j, j) = ";" }
                 e    == IF ends = {} THEN Len(s) ELSE MinOf(ends) - 1
             IN  SubSeq(s, i + 11, e)

\* String.prototype.split with a one-character separator
RECURSIVE Split(_, _)
Split(s, sep) ==
    LET at == { i \in 1..Len(s) : SubSeq(s, i, i) = sep }
    IN  IF at = {} THEN <<s>>
        ELSE <<SubSeq(s, 1, MinOf(at) - 1)>>
             \o Split(SubSeq(s, MinOf(at) + 1, Len(s)), sep)

\* String.prototype.trim
RECURSIVE Trim(_)
Trim(s) ==
    IF Len(s) > 0 /\ SubSeq(s, 1, 1) = " " THEN Trim(SubSeq(s, 2, Len(s)))
    ELSE IF Len(s) > 0 /\ SubSeq(s, Len(s), Len(s)) = " "
    THEN Trim(SubSeq(s, 1, Len(s) - 1))
    ELSE s

\* Array.prototype.join
RECURSIVE Join(_, _)
Join(parts, sep) ==
    IF parts = << >> THEN ""
    ELSE IF Len(parts) = 1 THEN parts[1]
    ELSE parts[1] \o sep \o Join(Tail(parts), sep)

\* setCookieHeader.split(",").map((cookie) => cookie.split(";")[0].trim()).join("; ")
AllCookies(s) ==
    LET parts == Split(s, ",")
    IN  Join([k \in 1..Len(parts) |-> Trim(Split(parts[k], ";")[1])], "; ")

\* getSessionCookie after its bootstrap fetch resolved at time t: the cookie
\* string it returns and the sessionCache it leaves.
SessionFrom(sessionResponse, cache, t) ==
    IF ~ResponseOk(sessionResponse) THEN [cookie |-> "", cache |-> cache]
    ELSE IF sessionResponse.setCookie = "" THEN [cookie |-> "", cache |-> cache]
    ELSE IF CookieMatch(sessionResponse.setCookie) # ""
    THEN LET c == "ci_session=" \o CookieMatch(sessionResponse.setCookie)
         IN  [cookie |-> c,
              cache  |-> [cookie |-> c, expiresAt |-> t + 30 * 60 * 1000]]
    ELSE LET c == AllCookies(sessionResponse.setCookie)
         IN  [cookie |-> c,
              cache  |-> [cookie |-> c, expiresAt |-> t + 10 * 60 * 1000]]

\* Mutant of SessionValid: a cached credential is used whatever its age.
SessionValidAlways(cache, t) == cache # NoSession

\* if (sessionCache && Date.now() < sessionCache.expiresAt)
SessionValid(cache, t) == cache # NoSession /\ t < cache.expiresAt

\* if (response.status === 403 && sessionCache)
ShouldRefresh(response, cache) == response.status = 403 /\ cache # NoSession

\* Mutant of ShouldRetryWith: the retry is sent whatever the refresh returned.
ShouldRetryWithAny(fresh) == TRUE

\* if (newCookies)
ShouldRetryWith(fresh) == fresh # ""

CredTerminal == { "success", "failed" }

(***************************************************************************)
(* The credentialed client: getComic(url), cut at its awaits.              *)
(***************************************************************************)
\* fetch(url, ...) with the header Cookie: cookie ("" = no Cookie header).
SendDetail(r, cookie) == sent' = [sent EXCEPT ![r] = Append(@, cookie)]

\* getComic rejects with error.
CredThrow(r, error) ==
    /\ cpc' = [cpc EXCEPT ![r] = "failed"]
    /\ cthrown' = [cthrown EXCEPT ![r] = error]

\* getComic up to its first fetch: getSessionCookie answers from a valid
\* cache entry and the detail request goes out, or it issues the bootstrap
\* request.
CredCall(r) ==
    /\ cpc[r] = "idle"
    /\ \A b \in LogcCalls : b < r => cpc[b] # "idle"
    /\ IF SessionValid(sessionCache, now)
       THEN /\ cookies' = [cookies EXCEPT ![r] = sessionCache.cookie]
            /\ SendDetail(r, sessionCache.cookie)
            /\ cpc' = [cpc EXCEPT ![r] = "detail"]
            /\ UNCHANGED boots
       ELSE /\ cpc' = [cpc EXCEPT ![r] = "session"]
            /\ boots' = [boots EXCEPT ![r] = @ + 1]
            /\ UNCHANGED <<cookies, sent>>
    /\ UNCHANGED <<sessionCache, issued, newCookies, response1, cthrown, chtml,
                   cleared>>
    /\ UNCHANGED <<now, ticks, plainVars, batchVars, pureVars>>

\* The first getSessionCookie returned cookie: the detail request goes out.
AfterSession(r, cookie) ==
    /\ cookies' = [cookies EXCEPT ![r] = cookie]
    /\ SendDetail(r, cookie)
    /\ cpc' = [cpc EXCEPT ![r] = "detail"]
    /\ UNCHANGED <<newCookies, cthrown>>

\* The getSessionCookie of the refresh returned fresh: the retry goes out, or
\* the error of the first response is thrown.
AfterRefresh(r, fresh) ==
    /\ newCookies' = [newCookies EXCEPT ![r] = fresh]
    /\ IF ShouldRetryWith(fresh)
       THEN /\ SendDetail(r, fresh)
            /\ cpc' = [cpc EXCEPT ![r] = "retry"]
            /\ UNCHANGED cthrown
       ELSE /\ CredThrow(r, HttpError(response1[r]))
            /\ UNCHANGED sent
    /\ UNCHANGED cookies

\* The bootstrap request is answered.
SessionResponds(r, sessionResponse) ==
    /\ cpc[r] \in { "session", "refresh" }
    /\ LET got == SessionFrom(sessionResponse, sessionCache, now)
       IN  /\ sessionCache' = got.cache
           /\ issued' = IF Includes(sessionResponse.setCookie, "ci_session=")
                        THEN issued + 1 ELSE issued
           /\ IF cpc[r] = "session"
              THEN AfterSession(r, got.cookie)
              ELSE AfterRefresh(r, got.cookie)
    /\ UNCHANGED <<response1, chtml, boots, cleared>>
    /\ UNCHANGED <<now, ticks, plainVars, batchVars, pureVars>>

\* The bootstrap request throws: getSessionCookie catches and returns "".
SessionRejects(r) ==
    /\ cpc[r] \in { "session", "refresh" }
    /\ IF cpc[r] = "session" THEN AfterSession(r, "") ELSE AfterRefresh(r, "")
    /\ UNCHANGED <<sessionCache, issued, response1, chtml, boots, cleared>>
    /\ UNCHANGED <<now, ticks, plainVars, batchVars, pureVars>>

\* The detail request is answered: the body is read, or the session is
\* refreshed after a 403, or the error is thrown.
DetailResponds(r, response) ==
    /\ cpc[r] = "detail"
    /\ response1' = [response1 EXCEPT ![r] = response]
    /\ IF ResponseOk(response)
       THEN /\ cpc' = [cpc EXCEPT ![r] = "text"]
            /\ UNCHANGED <<sessionCache, boots, cleared, cthrown>>
       ELSE IF ShouldRefresh(response, sessionCache)
       THEN /\ cleared' = [cleared EXCEPT ![r] = sessionCache]
            /\ sessionCache' = NoSession
            /\ boots' = [boots EXCEPT ![r] = @ + 1]
            /\ cpc' = [cpc EXCEPT ![r] = "refresh"]
            /\ UNCHANGED cthrown
       ELSE /\ CredThrow(r, HttpError(response))
            /\ UNCHANGED <<sessionCache, boots, cleared>>
    /\ UNCHANGED <<issued, cookies, newCookies, chtml, sent>>
    /\ UNCHANGED <<now, ticks, plainVars, batchVars, pureVars>>

\* Mutant of RetryResponds: a failed retry throws the error of its own
\* response.
RetryRespondsOwn(r, retryResponse) ==
    /\ cpc[r] = "retry"
    /\ IF ResponseOk(retryResponse)
       THEN /\ cpc' = [cpc EXCEPT ![r] = "retrytext"]
            /\ UNCHANGED cthrown
       ELSE CredThrow(r, HttpError(retryResponse))
    /\ UNCHANGED <<sessionCache, issued, cookies, newCookies, response1, chtml,
                   sent, boots, cleared>>
    /\ UNCHANGED <<now, ticks, plainVars, batchVars, pureVars>>

\* The retry is answered: the body is read, or the error of the FIRST
\* response is thrown.
RetryResponds(r, retryResponse) ==
    /\ cpc[r] = "retry"
    /\ IF ResponseOk(retryResponse)
       THEN /\ cpc' = [cpc EXCEPT ![r] = "retrytext"]
            /\ UNCHANGED cthrown
       ELSE CredThrow(r, HttpError(response1[r]))
    /\ UNCHANGED <<sessionCache, issued, cookies, newCookies, response1, chtml,
                   sent, boots, cleared>>
    /\ UNCHANGED <<now, ticks, plainVars, batchVars, pureVars>>

\* A detail fetch, the retry or a body read throws: the catch block rethrows.
CredRejects(r, message) ==
    /\ cpc[r] \in { "detail", "text", "retry", "retrytext" }
    /\ CredThrow(r, NetworkError(message))
    /\ UNCHANGED <<sessionCache, issued, cookies, newCookies, response1, chtml,
                   sent, boots, cleared>>
    /\ UNCHANGED <<now, ticks, plainVars, batchVars, pureVars>>

\* response.text() or retryResponse.text() resolves: getComic returns the html.
TextRead(r) ==
    /\ cpc[r] \in { "text", "retrytext" }
    /\ cpc' = [cpc EXCEPT ![r] = "success"]
    /\ chtml' = [chtml EXCEPT ![r] = Upstream(LogcUrl, now)]
    /\ UNCHANGED <<sessionCache, issued, cookies, newCookies, response1, cthrown,
                   sent, boots, cleared>>
    /\ UNCHANGED <<now, ticks, plainVars, batchVars, pureVars>>

\* Time passes with nothing happening.
AdvanceSession(d) ==
    /\ ticks < MaxAdvances
    /\ now' = now + d
    /\ ticks' = ticks + 1
    /\ UNCHANGED plainVars
    /\ UNCHANGED <<credVars, batchVars, pureVars>>

NextCred ==
    \/ \E r \in LogcCalls : CredCall(r)
    \/ \E r \in LogcCalls, b \in BootstrapResponses(issued) : SessionResponds(r, b)
    \/ \E r \in LogcCalls : SessionRejects(r)
    \/ \E r \in LogcCalls, response \in LogcResponses : DetailResponds(r, response)
    \/ \E r \in LogcCalls, response \in LogcResponses : RetryResponds(r, response)
    \/ \E r \in LogcCalls : CredRejects(r, "fetch failed")
    \/ \E r \in LogcCalls : TextRead(r)
    \/ \E d \in SessionDurations : AdvanceSession(d)

SpecCred == Init /\ [][NextCred]_vars

(***************************************************************************)
(* The batch route POST /comic/details: validation, the fan-out of one     *)
(* getComic per element, and the response.  Element c of the body is       *)
(* served by the getComic invocation c.                                    *)
(***************************************************************************)
\* Elements a body may hold that the validation rejects.
InvalidRequests ==
    { [comicId |-> 0, title |-> "a", variantId |-> ""],
      [comicId |-> 1, title |-> " ", variantId |-> ""] }

\* req.body: something that is no array, or an array of up to two elements.
Bodies ==
    { [isArray |-> FALSE, items |-> << >>], [isArray |-> TRUE, items |-> << >>] }
    \cup { [isArray |-> TRUE, items |-> <<a>>] : a \in Requests \cup InvalidRequests }
    \cup { [isArray |-> TRUE, items |-> <<a, b>>] :
             a \in Requests \cup InvalidRequests, b \in Requests \cup InvalidRequests }

\* The validation of one element (its types are those of ComicRequest).
ValidRequest(request) ==
    /\ request.comicId > 0
    /\ request.title # ""
    /\ Trim(request.title) # ""

\* The 400 response of a rejected body, "" when the body is accepted.
ValidationError(body) ==
    IF ~body.isArray THEN "Request body must be an array of comic requests"
    ELSE IF Len(body.items) = 0
    THEN "Request body must contain at least one comic request"
    ELSE IF \E i \in 1..Len(body.items) : ~ValidRequest(body.items[i])
    THEN "Each comic request must have a numeric comicId and a non-empty title string"
    ELSE ""

\* extractComicDetails(html), as far as the route is concerned: the details
\* of the page that was fetched.
PageDetails(html) == [kind |-> "details", page |-> html.page, asOf |-> html.asOf]

\* Mutant of StatusCodeOf: every failed item is reported with 500.
StatusCodeAlways500(error) == 500

\* (error as any)?.status || 500
StatusCodeOf(error) == IF error.status # 0 THEN error.status ELSE 500

\* The record the catch block of the map callback returns.
ItemError(request, error) ==
    [kind       |-> "error",
     error      |-> error.message,
     comicId    |-> request.comicId,
     title      |-> request.title,
     statusCode |-> StatusCodeOf(error)]

\* Mutant of ResponseData: the first failed item fails the whole group.
ResponseDataAll(outcomes, n) ==
    IF \E i \in 1..n : outcomes[i].kind = "error"
    THEN <<outcomes[CHOOSE i \in 1..n : outcomes[i].kind = "error"]>>
    ELSE [i \in 1..n |-> outcomes[i]]

\* results.map((result, index) => result.value): every promise is fulfilled,
\* the callback catches its own errors.
ResponseData(outcomes, n) == [i \in 1..n |-> outcomes[i]]

Items == { c \in Calls : c <= Len(comicRequests) }

\* Every callback of the map has run up to its first await.
AllStarted == bpc = "posted" /\ \A c \in Items : pc[c] # "idle"

\* The handler from the request to the end of its validation.
Post(body) ==
    /\ bpc = "idle"
    /\ IF ValidationError(body) # ""
       THEN /\ bpc' = "responded"
            /\ reply' = [status |-> 400, body |-> <<[error |-> ValidationError(body)]>>]
            /\ UNCHANGED comicRequests
       ELSE /\ bpc' = "posted"
            /\ comicRequests' = body.items
            /\ UNCHANGED reply
    /\ UNCHANGED settled
    /\ UNCHANGED <<now, ticks, plainVars, credVars, pureVars>>

\* comicRequests.map(async (request) => ...): the callback of element c runs
\* getComic up to its first await.  The callbacks run back to back, in order,
\* before anything else does.
StartItem(c) ==
    /\ bpc = "posted"
    /\ c \in Items
    /\ Call(c, comicRequests[c])

\* One event of the getComic invocation of an element, once all have started.
ItemRuns(c) ==
    /\ AllStarted
    /\ c \in Items
    /\ \/ \E m \in NetworkMessages : FetchRejects(c, m)
       \/ \E response \in Responses : FetchResponds(c, response)
       \/ BodyRead(c)
       \/ \E m \in NetworkMessages : BodyFails(c, m)
       \/ Wake(c)

\* getComic of element c has settled: the callback extracts the details, or
\* its catch block builds the error record.
ItemSettles(c) ==
    /\ AllStarted
    /\ c \in Items
    /\ pc[c] \in Terminal
    /\ settled[c] = NoOutcome
    /\ settled' = [settled EXCEPT ![c] =
                      IF pc[c] = "success" THEN PageDetails(result[c].html)
                      ELSE ItemError(comicRequests[c], thrown[c])]
    /\ UNCHANGED <<bpc, comicRequests, reply>>
    /\ UNCHANGED <<now, ticks, plainVars, credVars, pureVars>>

\* Promise.allSettled resolves: res.json(responseData).
Respond ==
    /\ AllStarted
    /\ \A c \in Items : settled[c] # NoOutcome
    /\ bpc' = "responded"
    /\ reply' = [status |-> 200,
                 body   |-> ResponseData(settled, Len(comicRequests))]
    /\ UNCHANGED <<comicRequests, settled>>
    /\ UNCHANGED <<now, ticks, plainVars, credVars, pureVars>>

NextBatch ==
    \/ \E body \in Bodies : Post(body)
    \/ \E c \in Calls : StartItem(c)
    \/ \E c \in Calls : ItemRuns(c)
    \/ \E c \in Calls : ItemSettles(c)
    \/ Respond

SpecBatch == Init /\ [][NextBatch]_vars

(***************************************************************************)
(* getComics: the query of the listing request.  An object is the sequence *)
(* of its entries in insertion order; a value is a string, a number or an  *)
(* array of strings.                                                       *)
(***************************************************************************)
StringValue(v) == [kind |-> "string", items |-> <<v>>]
NumberValue(n) == [kind |-> "number", items |-> <<n>>]
ArrayValue(items) == [kind |-> "array", items |-> items]
Entry(key, value) == [key |-> key, value |-> value]

HasKey(object, key) == \E i \in 1..Len(object) : object[i].key = key
Get(object, key) == object[CHOOSE i \in 1..Len(object) : object[i].key = key].value

\* Mutant of Spread: an array of the right operand is appended to the array
\* the left operand holds under the same key.
SpreadConcat(a, b) ==
    [i \in 1..Len(a) |->
        IF ~HasKey(b, a[i].key) THEN a[i]
        ELSE IF a[i].value.kind = "array" /\ Get(b, a[i].key).kind = "array"
        THEN Entry(a[i].key, ArrayValue(a[i].value.items \o Get(b, a[i].key).items))
        ELSE Entry(a[i].key, Get(b, a[i].key))]
    \o SelectSeq(b, LAMBDA e : ~HasKey(a, e.key))

\* { ...a, ...b }
Spread(a, b) ==
    [i \in 1..Len(a) |->
        IF HasKey(b, a[i].key) THEN Entry(a[i].key, Get(b, a[i].key)) ELSE a[i]]
    \o SelectSeq(b, LAMBDA e : ~HasKey(a, e.key))

\* String(value) of a value that is no array
String(value) ==
    IF value.kind = "number" THEN ToString(value.items[1]) ELSE value.items[1]

\* The entries searchParams.append adds for one entry of the object.
Appended(entry) ==
    IF entry.value.kind = "array"
    THEN [i \in 1..Len(entry.value.items) |-> <<entry.key, entry.value.items[i]>>]
    ELSE << <<entry.key, String(entry.value)>> >>

RECURSIVE buildSearchParams(_)
buildSearchParams(params) ==
    IF params = << >> THEN << >>
    ELSE Appended(Head(params)) \o buildSearchParams(Tail(params))

Pad(n, width) ==
    IF width = 3 /\ n < 10 THEN "00" \o ToString(n)
    ELSE IF n < 10 \/ (width = 3 /\ n < 100) THEN "0" \o ToString(n)
    ELSE ToString(n)

\* Date.prototype.toISOString of the time t (ms), for a time of January 1970.
toISOString(t) ==
    "1970-01-" \o Pad(t \div 86400000 + 1, 2)
    \o "T" \o Pad((t % 86400000) \div 3600000, 2)
    \o ":" \o Pad((t % 3600000) \div 60000, 2)
    \o ":" \o Pad((t % 60000) \div 1000, 2)
    \o "." \o Pad(t % 1000, 3) \o "Z"

\* new Date().toISOString().split("T")[0] at time t
getCurrentDate(t) == Split(toISOString(t), "T")[1]

\* DEFAULT_COMICS_PARAMS of the plain client
DEFAULT_COMICS_PARAMS ==
    << Entry("addons", StringValue("1")),
       Entry("list", StringValue("releases")),
       Entry("order", StringValue("alpha-asc")),
       Entry("format[]", ArrayValue(<<"1", "3", "4", "5", "6">>)),
       Entry("publisher[]", ArrayValue(<< >>)),
       Entry("date_type", StringValue("week")) >>

\* DEFAULT_COMICS_PARAMS of the credentialed client: an object literal the
\* module evaluates once, when it is loaded (time 0).
LOGC_DEFAULT_COMICS_PARAMS ==
    << Entry("addons", StringValue("1")),
       Entry("list", StringValue("releases")),
       Entry("order", StringValue("alpha-asc")),
       Entry("format[]", ArrayValue(<<"1", "6">>)),
       Entry("publisher[]", ArrayValue(<< >>)),
       Entry("date_type", StringValue("week")),
       Entry("date", StringValue(getCurrentDate(0))) >>

\* finalParams of the plain getComics called at time t
finalParams(params, t) ==
    Spread(Spread(DEFAULT_COMICS_PARAMS,
                  <<Entry("date", StringValue(getCurrentDate(t)))>>),
           params)

\* finalParams of the credentialed getComics
LogcFinalParams(params, t) == Spread(LOGC_DEFAULT_COMICS_PARAMS, params)

\* What a caller may pass under each key (none: the key is not passed).
ParamChoices ==
    [ format    : { "none", "empty", "one", "two" },
      date      : { "none", "given" },
      publisher : { "none", "given" },
      page      : { "none", "given" },
      order     : { "none", "given" } ]

\* The params object of a choice.
ParamsOf(choice) ==
    (IF choice.format = "none" THEN << >>
     ELSE <<Entry("format[]",
                  ArrayValue(IF choice.format = "empty" THEN << >>
                             ELSE IF choice.format = "one" THEN <<"2">>
                             ELSE <<"6", "1">>))>>)
    \o (IF choice.date = "none" THEN << >>
        ELSE <<Entry("date", StringValue("2025-08-06"))>>)
    \o (IF choice.publisher = "none" THEN << >>
        ELSE <<Entry("publisher[]", ArrayValue(<<"2">>))>>)
    \o (IF choice.page = "none" THEN << >> ELSE <<Entry("page", NumberValue(2))>>)
    \o (IF choice.order = "none" THEN << >>
        ELSE <<Entry("order", StringValue("pulls"))>>)

\* getComics(params) of the plain client up to url.search = ...
GetComics(params) ==
    /\ pureIn' = [of |-> "getComics", params |-> params, at |-> now]
    /\ pureOut' = [of |-> "query",
                   query |-> buildSearchParams(finalParams(params, now))]
    /\ UNCHANGED <<now, ticks, plainVars, credVars, batchVars>>

\* getComics(params) of the credentialed client up to url.search = ...
LogcGetComics(params) ==
    /\ pureIn' = [of |-> "logcGetComics", params |-> params, at |-> now]
    /\ pureOut' = [of |-> "query",
                   query |-> buildSearchParams(LogcFinalParams(params, now))]
    /\ UNCHANGED <<now, ticks, plainVars, credVars, batchVars>>

NextQuery ==
    \/ \E choice \in ParamChoices : GetComics(ParamsOf(choice))
    \/ \E choice \in ParamChoices : LogcGetComics(ParamsOf(choice))
    \/ \E d \in Durations : Advance(d)

SpecQuery == Init /\ [][NextQuery]_vars

(***************************************************************************)
(* Extraction (htmlParser.ts).  A document is given by what the cheerio    *)
(* selections of the extraction yield on it: the elements a selector       *)
(* finds, the text of an element (always a string, "" for an empty         *)
(* selection) and the value of an attribute (a string, or undefined when   *)
(* the attribute or the element is missing).  A JavaScript value is a      *)
(* record; type "raised" stands for a TypeError thrown while computing it. *)
(***************************************************************************)
Undefined == [type |-> "undefined", s |-> "", n |-> 0]
Null == [type |-> "null", s |-> "", n |-> 0]
Str(s) == [type |-> "string", s |-> s, n |-> 0]
Num(n) == [type |-> "number", s |-> "", n |-> n]
NaN == [type |-> "NaN", s |-> "", n |-> 0]
Match(group) == [type |-> "match", s |-> group, n |-> 0]
Raised == [type |-> "raised", s |-> "TypeError", n |-> 0]

Truthy(v) ==
    \/ v.type = "string" /\ v.s # ""
    \/ v.type = "number" /\ v.n # 0
    \/ v.type = "match"

\* c ? a : b
Cond(c, a, b) == IF c.type = "raised" THEN Raised ELSE IF Truthy(c) THEN a ELSE b

\* a || b
Or(a, b) == Cond(a, a, b)

\* String(v), as parseInt applies it to its argument
ToText(v) ==
    CASE v.type = "string" -> v.s
      [] v.type = "number" -> ToString(v.n)
      [] OTHER -> v.type

IsDigit(c) == c \in { "0", "1", "2", "3", "4", "5", "6", "7", "8", "9" }

\* s.startsWith(literal, i - 1); also: the literal of a pattern matches at i
StartsAt(s, i, literal) ==
    /\ i + Len(literal) - 1 <= Len(s)
    /\ SubSeq(s, i, i + Len(literal) - 1) = literal

\* \d+ at position i: the last position of the longest run of digits that
\* starts at i (i - 1 when s has no digit at i).
DigitsEnd(s, i) ==
    CHOOSE e \in (i - 1)..Len(s) :
        /\ \A k \in i..e : IsDigit(SubSeq(s, k, k))
        /\ e = Len(s) \/ ~IsDigit(SubSeq(s, e + 1, e + 1))

\* v.match(/<before>(\d+)<after>/): the leftmost match, null without one, a
\* TypeError when v is no string.  No character of the literals is a digit.
MatchDigits(v, before, after) ==
    IF v.type # "string" THEN Raised
    ELSE LET s == v.s
             hits == { i \in 1..Len(s) :
                         /\ StartsAt(s, i, before)
                         /\ DigitsEnd(s, i + Len(before)) >= i + Len(before)
                         /\ StartsAt(s, DigitsEnd(s, i + Len(before)) + 1, after) }
         IN  IF hits = {} THEN Null
             ELSE LET a == MinOf(hits) + Len(before)
                  IN  Match(SubSeq(s, a, DigitsEnd(s, a)))

\* m[1]
Index(m) ==
    IF m.type = "match" THEN Str(m.s)
    ELSE IF m.type \in { "null", "undefined", "raised" } THEN Raised
    ELSE Undefined

\* Mutant of OptionalIndex: m[1] where the source has m?.[1].
OptionalIndexUnguarded(m) == Index(m)

\* m?.[1]
OptionalIndex(m) == IF m.type \in { "null", "undefined" } THEN Undefined ELSE Index(m)

RECURSIVE TrimStart(_)
TrimStart(s) ==
    IF Len(s) > 0 /\ SubSeq(s, 1, 1) = " " THEN TrimStart(SubSeq(s, 2, Len(s))) ELSE s

\* The value of a character as a digit, 36 when it is none (radix <= 16).
DigitValue(c) ==
    LET lower == "0123456789abcdef"
        upper == "0123456789ABCDEF"
    IN  IF \E i \in 1..16 : SubSeq(lower, i, i) = c
        THEN (CHOOSE i \in 1..16 : SubSeq(lower, i, i) = c) - 1
        ELSE IF \E i \in 1..16 : SubSeq(upper, i, i) = c
        THEN (CHOOSE i \in 1..16 : SubSeq(upper, i, i) = c) - 1
        ELSE 36

RECURSIVE ValueOf(_, _)
ValueOf(digits, radix) ==
    IF digits = "" THEN 0
    ELSE ValueOf(SubSeq(digits, 1, Len(digits) - 1), radix) * radix
         + DigitValue(SubSeq(digits, Len(digits), Len(digits)))

\* parseInt(v, radix); radix 0 stands for a call without a radix.
parseInt(v, radix) ==
    IF v.type = "raised" THEN Raised
    ELSE LET s0 == TrimStart(ToText(v))
             negative == StartsAt(s0, 1, "-")
             s1 == IF negative \/ StartsAt(s0, 1, "+")
                   THEN SubSeq(s0, 2, Len(s0)) ELSE s0
             hex == radix \in { 0, 16 } /\ (StartsAt(s1, 1, "0x") \/ StartsAt(s1, 1, "0X"))
             r == IF hex THEN 16 ELSE IF radix = 0 THEN 10 ELSE radix
             s2 == IF hex THEN SubSeq(s1, 3, Len(s1)) ELSE s1
             e == CHOOSE k \in 0..Len(s2) :
                     /\ \A j \in 1..k : DigitValue(SubSeq(s2, j, j)) < r
                     /\ k = Len(s2) \/ DigitValue(SubSeq(s2, k + 1, k + 1)) >= r
         IN  IF e = 0 THEN NaN
             ELSE Num((IF negative THEN -1 ELSE 1) * ValueOf(SubSeq(s2, 1, e), r))

makeAbsoluteUrl(url) ==
    IF url.type = "raised" THEN Raised
    ELSE IF ~Truthy(url) THEN Str("")
    ELSE IF url.type # "string" THEN Raised
    ELSE IF StartsAt(url.s, 1, "http") THEN url
    ELSE Str(LOCG_URL \o (IF StartsAt(url.s, 1, "/") THEN "" ELSE "/") \o url.s)

\* url.split("?")[0].match(/^\/comic\/\d+\/([^\/]+)$/)
extractTitlePath(url) ==
    IF url.type = "raised" THEN Raised
    ELSE IF ~Truthy(url) THEN Str("")
    ELSE IF url.type # "string" THEN Raised
    ELSE LET s == Split(url.s, "?")[1]
             e == DigitsEnd(s, 8)
         IN  IF /\ StartsAt(s, 1, "/comic/")
                /\ e >= 8
                /\ StartsAt(s, e + 1, "/")
                /\ e + 2 <= Len(s)
                /\ \A k \in (e + 2)..Len(s) : SubSeq(s, k, k) # "/"
             THEN Str(SubSeq(s, e + 2, Len(s)))
             ELSE Str("")

\* A Date, given by what toISOString (and so JSON) makes of it.
Date(iso) == [type |-> "date", s |-> iso, n |-> 0]

\* dateString.replace(/(\d+)(st|nd|rd|th)/, "$1"): the suffix after the
\* leftmost run of digits that has one is removed.
StripOrdinal(s) ==
    LET HasSuffix(i) == \E suffix \in { "st", "nd", "rd", "th" } :
                            StartsAt(s, DigitsEnd(s, i) + 1, suffix)
        hits == { i \in 1..Len(s) : IsDigit(SubSeq(s, i, i)) /\ HasSuffix(i) }
    IN  IF hits = {} THEN s
        ELSE LET e == DigitsEnd(s, MinOf(hits))
             IN  SubSeq(s, 1, e) \o SubSeq(s, e + 3, Len(s))

MonthNames ==
    << "Jan", "Feb", "Mar", "Apr", "May", "Jun",
       "Jul", "Aug", "Sep", "Oct", "Nov", "Dec" >>

\* new Date(string) for the form "Mon D, YYYY" the site prints (read in a
\* process whose time zone is UTC); any other string gives an invalid Date.
NewDate(s) ==
    LET d == DigitsEnd(s, 5)
        y == DigitsEnd(s, d + 3)
    IN  IF /\ \E m \in 1..12 : StartsAt(s, 1, MonthNames[m] \o " ")
           /\ d \in { 5, 6 }
           /\ StartsAt(s, d + 1, ", ")
           /\ y = d + 6
           /\ y = Len(s)
        THEN Date(SubSeq(s, d + 3, y) \o "-"
                  \o Pad(CHOOSE m \in 1..12 : StartsAt(s, 1, MonthNames[m] \o " "), 2)
                  \o "-" \o Pad(ValueOf(SubSeq(s, 5, d), 10), 2)
                  \o "T00:00:00.000Z")
        ELSE NaN

\* parseComicDate(dateString) called at time t
parseComicDate(dateString, t) ==
    IF dateString = "" \/ Trim(dateString) = "" THEN Date(toISOString(t))
    ELSE LET parsedDate == NewDate(StripOrdinal(dateString))
         IN  IF parsedDate = NaN THEN Date(toISOString(t)) ELSE parsedDate

\* The sequences over S of length at most n.
SeqsUpTo(S, n) == UNION { [1..k -> S] : k \in 0..n }

\* Values of the data attributes of a listing item.
ListingItems ==
    [ dataComic     : { Undefined, Str(""), Str("0"), Str("7"), Str("-3"),
                        Str("abc"), Str("0x10"), Str(" 42") },
      dataParent    : { Undefined, Str(""), Str("0"), Str("00"), Str("5"), Str("abc") },
      dataPulls     : { Undefined, Str("15"), Str("-2") },
      dataCommunity : { Undefined, Str("4"), Str("n/a") },
      href          : { Undefined, Str("/comic/7/x-1?variant=9"), Str("comic/7/x-1") },
      variantName   : { "", " Cover B " } ]

\* The argument of extractComicData: no string at all, or the markup of a
\* list of at most one item, or of a variant followed by its parent.
Documents ==
    { [kind |-> "undefined", items |-> << >>] }
    \cup { [kind |-> "string", items |-> items] : items \in SeqsUpTo(ListingItems, 1) }
    \cup { [kind |-> "string",
            items |-> << [dataComic |-> Str("9"), dataParent |-> Str("7"),
                          dataPulls |-> Str("15"), dataCommunity |-> Str("4"),
                          href |-> Str("/comic/7/x-1?variant=9"),
                          variantName |-> " Cover B "],
                         [dataComic |-> Str("7"), dataParent |-> Str("0"),
                          dataPulls |-> Str("15"), dataCommunity |-> Str("4"),
                          href |-> Str("/comic/7/x-1"), variantName |-> ""] >>] }

\* parseHtml, as far as the selections see it: what is no string is cleaned
\* to "", the markup of no item.
parseHtml(document) ==
    IF document.kind # "string" THEN [kind |-> "string", items |-> << >>]
    ELSE document

\* The callback of $("#comic-list-issues li.issue").each: the ComicData of
\* one item (the fields made of element text alone are left out).  A
\* property the callback does not assign reads undefined.
ComicOf(item) ==
    LET url == Or(item.href, Str(""))
        variantName == Trim(item.variantName)
        parentId == item.dataParent
        isVariant == Truthy(parentId) /\ parentId # Str("0")
    IN  [ id |-> parseInt(Or(item.dataComic, Str("0")), 0),
          url |-> makeAbsoluteUrl(url),
          pulls |-> parseInt(Or(item.dataPulls, Str("0")), 0),
          community |-> parseInt(Or(item.dataCommunity, Str("0")), 0),
          titlePath |-> extractTitlePath(url),
          parentId |-> IF isVariant THEN parseInt(parentId, 10) ELSE Undefined,
          variantId |-> IF isVariant
                        THEN parseInt(Or(item.dataComic, Str("0")), 10)
                        ELSE Undefined,
          variantName |-> IF isVariant /\ variantName # ""
                          THEN Str(variantName) ELSE Undefined ]

Returned(value) == [kind |-> "returned", value |-> value]
Thrown == [kind |-> "raised", value |-> << >>]

extractComicData(htmlString) ==
    LET items == parseHtml(htmlString).items
        comics == [i \in 1..Len(items) |-> ComicOf(items[i])]
    IN  IF \E i \in 1..Len(comics) :
              \E f \in DOMAIN comics[i] : comics[i][f].type = "raised"
        THEN Thrown
        ELSE Returned(comics)

\* The elements of a creator section ($creator): text of .name a, text of
\* .role, href of .name a.
CreatorElements ==
    { [name |-> " Al Ewing ", role |-> "Writer", href |-> Str("/people/1/al-ewing")],
      [name |-> "a|b", role |-> "c", href |-> Undefined],
      [name |-> "a", role |-> "b|c", href |-> Undefined],
      [name |-> "", role |-> "Artist", href |-> Undefined] }

\* The creator sections of a story, and the cover artists of a page.
StoryCreatorLists ==
    LET writer == [name |-> " Al Ewing ", role |-> "Writer",
                   href |-> Str("/people/1/al-ewing")]
        artist == [name |-> "Al Ewing", role |-> "Artist",
                   href |-> Str("/people/1/al-ewing")]
    IN  { << >>, <<writer>>, <<writer, artist>>, <<writer, artist, writer>> }

VariantElements ==
    { [title |-> Undefined, href |-> Undefined],
      [title |-> Str("Cover B"), href |-> Str("/comic/7/x-1?variant=9")],
      [title |-> Str("Cover C"), href |-> Str("/comic/7/x-1")] }

\* The argument of extractComicDetails: the markup of a detail page.
Pages ==
    [ canonical      : { Undefined, Str("https://leagueofcomicgeeks.com/comic/7/x-1"),
                         Str("/x-1") },
      releaseDate    : { "", " Aug 6th, 2025 ", "TBA" },
      formatAndPages : { "", " Comic 32 pages " },
      creators       : SeqsUpTo(CreatorElements, MaxCreators),
      coverArtists   : { << >>, << [name |-> "Al Ewing", role |-> "Writer",
                                     href |-> Str("/people/1/al-ewing")] >> },
      variants       : SeqsUpTo(VariantElements, 1),
      stories        : SeqsUpTo([ title    : { "", "Part One" },
                                  creators : StoryCreatorLists ], 1),
      prev           : { Undefined, Str("/comic/6/x-0") } ]

\* The creators the callback of a creator section pushes, in document order.
Creators(elements, type) ==
    SelectSeq([i \in 1..Len(elements) |->
                  [ name |-> Trim(elements[i].name),
                    role |-> Trim(elements[i].role),
                    url  |-> makeAbsoluteUrl(Or(elements[i].href, Str(""))),
                    type |-> type ]],
              LAMBDA c : c.name # "")

CreatorKey(c) == c.name \o "|" \o c.role \o "|" \o c.url.s \o "|" \o c.type

\* for (const c of creators) { ... } with the keys seen so far
RECURSIVE uniqueCreators(_, _)
uniqueCreators(creators, seen) ==
    IF creators = << >> THEN << >>
    ELSE IF CreatorKey(Head(creators)) \in seen
    THEN uniqueCreators(Tail(creators), seen)
    ELSE <<Head(creators)>>
         \o uniqueCreators(Tail(creators), seen \cup { CreatorKey(Head(creators)) })

\* The callback of .variant-cover-list .col-lg-4: the values it computes for
\* one element, pushed when title and url are not empty.
VariantOf(element) ==
    LET variantTitle == Or(element.title, Str(""))
        variantUrl == Or(element.href, Str(""))
    IN  [ id    |-> parseInt(Or(OptionalIndex(MatchDigits(variantUrl, "variant=", "")),
                                Str("0")), 0),
          title |-> variantTitle,
          url   |-> makeAbsoluteUrl(variantUrl),
          push  |-> Truthy(variantTitle) /\ Truthy(variantUrl) ]

\* The callback of $(".story-item").each (title and creators).
StoryOf(story) ==
    [ title |-> Trim(story.title), creators |-> Creators(story.creators, "creator") ]

\* extractComicDetails called at time t: the release date, the fields
\* computed from attributes and matches and the lists (the other fields made
\* of element text alone are left out).
extractComicDetails(page, t) ==
    LET releaseDate == parseComicDate(Trim(page.releaseDate), t)
        canonicalUrl == Or(page.canonical, Str(""))
        idMatch == MatchDigits(canonicalUrl, "comic/", "/")
        id == Cond(idMatch, parseInt(Index(idMatch), 0), Num(0))
        formatAndPages == Str(Trim(page.formatAndPages))
        pages == parseInt(Or(OptionalIndex(MatchDigits(formatAndPages, "", " pages")),
                             Str("0")), 0)
        creators == Creators(page.creators, "creator")
                    \o Creators(page.coverArtists, "cover")
        variants == [i \in 1..Len(page.variants) |-> VariantOf(page.variants[i])]
        stories == [i \in 1..Len(page.stories) |-> StoryOf(page.stories[i])]
        previousIssueUrl == Or(page.prev, Undefined)
        previous == Cond(previousIssueUrl, makeAbsoluteUrl(previousIssueUrl), Undefined)
        computed == { canonicalUrl, idMatch, id, pages, previous }
                    \cup { creators[i].url : i \in 1..Len(creators) }
                    \cup { variants[i].id : i \in 1..Len(variants) }
                    \cup { variants[i].url : i \in 1..Len(variants) }
                    \cup UNION { { stories[i].creators[j].url :
                                     j \in 1..Len(stories[i].creators) } :
                                 i \in 1..Len(stories) }
    IN  IF \E v \in computed : v.type = "raised" THEN Thrown
        ELSE Returned([ id |-> id,
                        url |-> canonicalUrl,
                        releaseDate |-> releaseDate,
                        pages |-> pages,
                        creators |-> uniqueCreators(creators, {}),
                        variants |-> SelectSeq(variants, LAMBDA v : v.push),
                        stories |-> SelectSeq(stories, LAMBDA st : st.title # ""),
                        previousIssueUrl |-> previous ])

\* extractComicData(htmlString); one extraction is followed: the function
\* keeps nothing from one call to the next.
ExtractComicData ==
    /\ pureIn = NoInput
    /\ \E htmlString \in Documents :
          /\ pureIn' = [of |-> "extractComicData", htmlString |-> htmlString]
          /\ pureOut' = extractComicData(htmlString)
    /\ UNCHANGED <<now, ticks, plainVars, credVars, batchVars>>

\* extractComicDetails(htmlString)
ExtractComicDetails ==
    /\ pureIn = NoInput
    /\ \E htmlString \in Pages :
          /\ pureIn' = [of |-> "extractComicDetails", htmlString |-> htmlString]
          /\ pureOut' = extractComicDetails(htmlString, now)
    /\ UNCHANGED <<now, ticks, plainVars, credVars, batchVars>>

NextExtract == ExtractComicData \/ ExtractComicDetails

SpecExtract == Init /\ [][NextExtract]_vars

\* The detail pages that differ in release date, canonical link, page count
\* and previous issue only.
DatedPages ==
    { page \in Pages : /\ page.creators = << >>
                       /\ page.coverArtists = << >>
                       /\ page.variants = << >>
                       /\ page.stories = << >> }

\* extractComicDetails(htmlString), the first of two extractions of one markup
ExtractOnce ==
    /\ pureIn = NoInput
    /\ \E htmlString \in DatedPages :
          /\ pureIn' = [of |-> "extractTwice", htmlString |-> htmlString]
          /\ pureOut' = [first |-> extractComicDetails(htmlString, now),
                         second |-> NoOutcome]
    /\ UNCHANGED <<now, ticks, plainVars, credVars, batchVars>>

\* extractComicDetails(htmlString) again, on the same markup
ExtractAgain ==
    /\ pureIn.of = "extractTwice"
    /\ pureOut.second = NoOutcome
    /\ pureIn' = pureIn
    /\ pureOut' = [pureOut EXCEPT !.second = extractComicDetails(pureIn.htmlString, now)]
    /\ UNCHANGED <<now, ticks, plainVars, credVars, batchVars>>

NextTwice ==
    \/ ExtractOnce
    \/ ExtractAgain
    \/ \E d \in Durations : Advance(d)

SpecTwice == Init /\ [][NextTwice]_vars

(***************************************************************************)
(* Both clients in one process: one getComic of the plain client next to   *)
(* the getComic(url) invocations of the credentialed client.               *)
(***************************************************************************)
\* One getComic of the plain client that the upstream answers.
PlainStep ==
    \/ Call(1, [comicId |-> 1, title |-> "a", variantId |-> "b"])
    \/ FetchResponds(1, [status |-> 200, statusText |-> "OK"])
    \/ BodyRead(1)

\* The credentialed client where the site answers the bootstrap request with
\* cookies or an error status and a detail request with 200 or 403.
CredStep ==
    \/ \E r \in LogcCalls : CredCall(r)
    \/ \E r \in LogcCalls :
          \E b \in { x \in BootstrapResponses(issued) :
                        x.status # 200 \/ x.setCookie # "" } : SessionResponds(r, b)
    \/ \E r \in LogcCalls :
          \E response \in { x \in LogcResponses : x.status \in { 200, 403 } } :
             DetailResponds(r, response) \/ RetryResponds(r, response)
    \/ \E r \in LogcCalls : TextRead(r)

NextBoth ==
    \/ PlainStep
    \/ CredStep
    \/ Advance(30 * 60 * 1000)

SpecBoth == Init /\ [][NextBoth]_vars

(***************************************************************************)
(* parseComicPrice.  A number with a fraction is given by its whole part   *)
(* (n) and the digits of its fraction without trailing zeros (s); "-"      *)
(* leads the fraction digits of a negative number.                         *)
(***************************************************************************)
RECURSIVE StripZeros(_)
StripZeros(digits) ==
    IF Len(digits) > 0 /\ SubSeq(digits, Len(digits), Len(digits)) = "0"
    THEN StripZeros(SubSeq(digits, 1, Len(digits) - 1))
    ELSE digits

Float(negative, whole, fraction) ==
    [ type |-> "number",
      s |-> IF negative /\ fraction # "" THEN "-" \o fraction ELSE fraction,
      n |-> IF negative THEN 0 - whole ELSE whole ]

\* parseFloat(s): the longest prefix of s, after leading white space, that is
\* a signed decimal literal (an exponent or "Infinity" needs a letter, which
\* no string here holds).
parseFloat(s) ==
    LET s0 == TrimStart(s)
        negative == StartsAt(s0, 1, "-")
        s1 == IF negative \/ StartsAt(s0, 1, "+") THEN SubSeq(s0, 2, Len(s0)) ELSE s0
        a == DigitsEnd(s1, 1)
        hasDot == StartsAt(s1, a + 1, ".")
        b == IF hasDot THEN DigitsEnd(s1, a + 2) ELSE a
        fraction == IF hasDot THEN SubSeq(s1, a + 2, b) ELSE ""
    IN  IF a = 0 /\ fraction = "" THEN NaN
        ELSE Float(negative, ValueOf(SubSeq(s1, 1, a), 10), StripZeros(fraction))

\* Mutant of Clean: the minus sign is kept as well.
RECURSIVE CleanKeepSign(_)
CleanKeepSign(s) ==
    IF s = "" THEN ""
    ELSE (IF IsDigit(SubSeq(s, 1, 1)) \/ SubSeq(s, 1, 1) \in { ".", "-" }
          THEN SubSeq(s, 1, 1) ELSE "")
         \o CleanKeepSign(SubSeq(s, 2, Len(s)))

\* priceString.replace(/[^\d.]/g, "")
RECURSIVE Clean(_)
Clean(s) ==
    IF s = "" THEN ""
    ELSE (IF IsDigit(SubSeq(s, 1, 1)) \/ SubSeq(s, 1, 1) = "."
          THEN SubSeq(s, 1, 1) ELSE "")
         \o Clean(SubSeq(s, 2, Len(s)))

parseComicPrice(priceString) ==
    IF priceString = "" \/ Trim(priceString) = "" THEN Num(0)
    ELSE LET parsedPrice == parseFloat(Clean(priceString))
         IN  IF parsedPrice = NaN THEN Num(0) ELSE parsedPrice

\* The strings of at most n characters a price text is made of here.
RECURSIVE PriceStrings(_)
PriceStrings(n) ==
    IF n = 0 THEN { "" }
    ELSE LET shorter == PriceStrings(n - 1)
         IN  shorter \cup { s \o c : s \in shorter, c \in { "$", "4", "0", ".", " ", "-" } }

\* parseComicPrice(priceString)
ParseComicPrice ==
    /\ pureIn = NoInput
    /\ \E priceString \in PriceStrings(MaxPriceLen) :
          /\ pureIn' = [of |-> "parseComicPrice", priceString |-> priceString]
          /\ pureOut' = parseComicPrice(priceString)
    /\ UNCHANGED <<now, ticks, plainVars, credVars, batchVars>>

NextPrice == ParseComicPrice

SpecPrice == Init /\ [][NextPrice]_vars

(***************************************************************************)
(* parseHtml on strings: the replacements of lines 476-498, in order.      *)
(***************************************************************************)
IsSpace(c) == c \in { " ", "\n", "\r", "\t" }

\* s.replace(/<literal>/g, to)
RECURSIVE ReplaceAll(_, _, _)
ReplaceAll(s, literal, to) ==
    IF s = "" THEN ""
    ELSE IF StartsAt(s, 1, literal)
    THEN to \o ReplaceAll(SubSeq(s, Len(literal) + 1, Len(s)), literal, to)
    ELSE SubSeq(s, 1, 1) \o ReplaceAll(SubSeq(s, 2, Len(s)), literal, to)

\* s.replace(/c{2,}/g, c)
RECURSIVE CollapseRuns(_, _)
CollapseRuns(s, c) ==
    IF Len(s) < 2 THEN s
    ELSE IF SubSeq(s, 1, 1) = c /\ SubSeq(s, 2, 2) = c
    THEN CollapseRuns(SubSeq(s, 2, Len(s)), c)
    ELSE SubSeq(s, 1, 1) \o CollapseRuns(SubSeq(s, 2, Len(s)), c)

\* String.prototype.trim over all white space
RECURSIVE TrimSpace(_)
TrimSpace(s) ==
    IF Len(s) > 0 /\ IsSpace(SubSeq(s, 1, 1)) THEN TrimSpace(SubSeq(s, 2, Len(s)))
    ELSE IF Len(s) > 0 /\ IsSpace(SubSeq(s, Len(s), Len(s)))
    THEN TrimSpace(SubSeq(s, 1, Len(s) - 1))
    ELSE s

\* \s+ at position i: the last position of the longest run of white space
\* that starts at i (i - 1 when there is none).
SpaceEnd(s, i) ==
    CHOOSE e \in (i - 1)..Len(s) :
        /\ \A k \in i..e : IsSpace(SubSeq(s, k, k))
        /\ e = Len(s) \/ ~IsSpace(SubSeq(s, e + 1, e + 1))

\* s.replace(/>\s+</g, "><")
RECURSIVE CloseTagGaps(_)
CloseTagGaps(s) ==
    IF s = "" THEN ""
    ELSE IF /\ SubSeq(s, 1, 1) = ">"
            /\ SpaceEnd(s, 2) >= 2
            /\ StartsAt(s, SpaceEnd(s, 2) + 1, "<")
    THEN "><" \o CloseTagGaps(SubSeq(s, SpaceEnd(s, 2) + 2, Len(s)))
    ELSE SubSeq(s, 1, 1) \o CloseTagGaps(SubSeq(s, 2, Len(s)))

\* s.replace(/>(\S)/g, "> $1")
RECURSIVE SpaceAfterTags(_)
SpaceAfterTags(s) ==
    IF s = "" THEN ""
    ELSE IF SubSeq(s, 1, 1) = ">" /\ Len(s) >= 2 /\ ~IsSpace(SubSeq(s, 2, 2))
    THEN "> " \o SubSeq(s, 2, 2) \o SpaceAfterTags(SubSeq(s, 3, Len(s)))
    ELSE SubSeq(s, 1, 1) \o SpaceAfterTags(SubSeq(s, 2, Len(s)))

\* parseHtml(htmlString) for a string: the value of cleanHtml it returns.
cleanHtml(htmlString) ==
    IF htmlString = "" THEN ""
    ELSE LET s1 == ReplaceAll(htmlString, "\\r\\n", "\n")
             s2 == ReplaceAll(s1, "\r\n", "\n")
             s3 == CollapseRuns(s2, "\n")
             s4 == CollapseRuns(s3, " ")
             s5 == TrimSpace(s4)
             s6 == ReplaceAll(s5, "&amp;", "&")
             s7 == ReplaceAll(s6, "&quot;", "\"")
             s8 == ReplaceAll(s7, "&#39;", "'")
             s9 == CloseTagGaps(s8)
         IN  SpaceAfterTags(s9)

\* The markup: at most n pieces, each a tag boundary, a letter, white space,
\* an escaped or a real line break, or an entity.
RECURSIVE Markups(_)
Markups(n) ==
    IF n = 0 THEN { "" }
    ELSE LET shorter == Markups(n - 1)
         IN  shorter \cup { s \o piece : s \in shorter,
                            piece \in { "<", ">", "a", " ", "\n", "\r\n", "\\r\\n",
                                        "&amp;", "&quot;", "&#39;" } }

\* parseHtml(htmlString)
ParseHtml ==
    /\ pureIn = NoInput
    /\ \E htmlString \in Markups(MaxPieces) :
          /\ pureIn' = [of |-> "parseHtml", htmlString |-> htmlString]
          /\ pureOut' = [of |-> "cleanHtml", html |-> cleanHtml(htmlString)]
    /\ UNCHANGED <<now, ticks, plainVars, credVars, batchVars>>

NextHtml == ParseHtml

SpecHtml == Init /\ [][NextHtml]_vars

(***************************************************************************)
(* Claims about the plain client.                                          *)
(***************************************************************************)
InFlight == { "fetch", "body" }

\* The invocation c starts in this step.
Starts(c) == pc[c] = "idle" /\ pc'[c] # "idle"

\* The cache key of the invocation c once it has started.
KeyAfter(c) == getCacheKey(req'[c].comicId, req'[c].title, req'[c].variantId)

\* The attempt in flight of c fails in this step.
AttemptFails(c) == pc[c] \in InFlight /\ pc'[c] \in { "sleep", "failed" }

\* C1: a getComic call made while the cache holds an entry for its key whose
\* age (now - timestamp) does not exceed the 4-day TTL resolves at once with
\* exactly the stored {html, url}, issues no network request, and never
\* issues one afterwards.
C1_HitWithinTtl ==
    [][\A c \in Calls :
         /\ ( /\ Starts(c)
              /\ KeyAfter(c) \in DOMAIN comicCache
              /\ now - comicCache[KeyAfter(c)].timestamp <= CACHE_TTL )
            => /\ pc'[c] = "success"
               /\ result'[c] = comicCache[KeyAfter(c)].data
               /\ log'[c] = << >>
               /\ comicCache' = comicCache
         /\ (pc[c] = "success" /\ log[c] = << >>) => log'[c] = << >>
      ]_vars

\* C1 witness: an invocation served from an entry whose age is exactly the TTL.
C1_Witness ==
    \E c \in Calls :
        /\ pc[c] = "success"
        /\ log[c] = << >>
        /\ KeyOf(c) \in DOMAIN comicCache
        /\ now - comicCache[KeyOf(c)].timestamp = CACHE_TTL
        /\ result[c] = comicCache[KeyOf(c)].data

C3_Original == \A c \in Calls : Requested(c) <= 3

\* C3 amended: a getComic call under the default configuration performs at
\* most retries + 1 = 4 fetch attempts: the first one and three retries.
C3_AtMostFourAttempts == \A c \in Calls : Requested(c) <= 4

\* C3 witness: an invocation that has issued its fourth fetch.
C3_Witness == \E c \in Calls : Requested(c) = 4

\* 2^0 * 1000 + ... + 2^(n-2) * 1000
RECURSIVE BackoffSum(_)
BackoffSum(n) == IF n <= 1 THEN 0 ELSE (2 ^ (n - 2)) * 1000 + BackoffSum(n - 1)

\* C4: when attempts 1..N-1 fail with retryable errors and attempt N
\* succeeds, the call succeeds, the total backoff is the sum of 2^k * 1000 ms
\* for k = 0..N-2, and each wait lies between two consecutive attempts; a
\* retryable failure before the last allowed attempt never fails the call.
C4_BackoffSchedule ==
    /\ [](\A c \in Calls :
            (pc[c] = "success" /\ log[c] # << >>)
            => LET n == Requested(c)
               IN  /\ Len(log[c]) = 2 * n - 1
                   /\ \A k \in 1..n : log[c][2 * k - 1] = 0
                   /\ \A k \in 1..(n - 1) : log[c][2 * k] = (2 ^ (k - 1)) * 1000
                   /\ Waited(c) = BackoffSum(n))
    /\ [][\A c \in Calls :
            (AttemptFails(c) /\ isRetryableError(raised'[c])
                /\ Requested(c) < DEFAULT_RETRIES + 1)
            => pc'[c] = "sleep"]_vars

\* C4 witness: success on the third attempt after 1000 + 2000 ms of backoff.
C4_Witness ==
    \E c \in Calls :
        pc[c] = "success" /\ Requested(c) = 3 /\ Waited(c) = 3000

\* C5: when the first attempt fails with a non-retryable error the call
\* fails after exactly one network request, with no backoff sleep.
C5_NonRetryableFirstAttempt ==
    [][\A c \in Calls :
         (AttemptFails(c) /\ attempt[c] = 0 /\ ~isRetryableError(raised'[c]))
         => /\ pc'[c] = "failed"
            /\ log'[c] = <<0>>
            /\ thrown'[c] = raised'[c]
      ]_vars

\* C5 witness: a call failed by a non-retryable error on its first attempt.
C5_Witness ==
    \E c \in Calls :
        /\ pc[c] = "failed"
        /\ attempt[c] = 0
        /\ ~isRetryableError(thrown[c])
        /\ log[c] = <<0>>

\* C6 as stated: an HTTP status error is never retried, whatever its status
\* code and status text: no backoff sleep follows a non-2xx response.
C6_Original ==
    \A c \in Calls : pc[c] = "sleep" => raised[c].status = 0

\* C7: when getComic gives up, the error it rejects with is the error raised
\* by the last attempt made, with the status of that attempt's response when
\* the response was a non-2xx one, and no status otherwise.
C7_LastErrorPropagated ==
    \A c \in Calls :
        pc[c] = "failed"
        => /\ thrown[c] = raised[c]
           /\ thrown[c].isError
           /\ thrown[c].status =
                 (IF answered[c] = 0 \/ (answered[c] >= 200 /\ answered[c] <= 299)
                  THEN 0 ELSE answered[c])

\* C7 witness: a call that failed on a 404 after an earlier attempt failed
\* with another error.
C7_Witness ==
    \E c \in Calls :
        pc[c] = "failed" /\ Requested(c) >= 2 /\ thrown[c].status = 404

\* The transitions of the retrieval state machine.
MachineSteps ==
    { <<"idle", "fetch">>, <<"idle", "success">>,
      <<"fetch", "body">>, <<"body", "success">>,
      <<"fetch", "sleep">>, <<"body", "sleep">>,
      <<"fetch", "failed">>, <<"body", "failed">>,
      <<"sleep", "fetch">> }

\* C8: each request follows Idle -> Fetching -> (Retrying -> Fetching)* ->
\* Success | Failed; provided every attempt completes, a started request
\* eventually reaches Success or Failed, and once there it makes no further
\* fetch attempt.
C8_RetrievalMachine ==
    /\ \A c \in Calls : (pc[c] \in { "fetch", "body", "sleep" }) ~> (pc[c] \in Terminal)
    /\ [][\A c \in Calls :
            /\ pc'[c] # pc[c] => <<pc[c], pc'[c]>> \in MachineSteps
            /\ pc[c] \in Terminal => (pc'[c] = pc[c] /\ log'[c] = log[c])
         ]_vars

\* C8 witness: a request that went through Retrying and reached Failed.
C8_Witness ==
    \E c \in Calls : pc[c] = "failed" /\ Requested(c) = 4 /\ Waited(c) = 7000

\* C9 as stated: an attempt is bounded by the 30 s timeout until the response
\* body has been read: no attempt is in flight for more than 30 s.
C9_Original ==
    \A c \in Calls : pc[c] \in InFlight => now - started[c] <= REQUEST_TIMEOUT

\* C13: under every interleaving of getComic invocations at their awaits,
\* several misses of one key included, every cache entry holds the complete
\* {html, url} of one successful fetch of a request with that entry's key,
\* and the time of that store as its timestamp; and every invocation that
\* resolves after fetching resolves with the page of its own request.
C13_RacesAreBenign ==
    /\ \A k \in DOMAIN comicCache :
         \E r \in Requests :
            /\ getCacheKey(r.comicId, r.title, r.variantId) = k
            /\ comicCache[k].data.url = ComicUrl(r.comicId, r.title, r.variantId)
            /\ comicCache[k].data.html =
                  Upstream(comicCache[k].data.url, comicCache[k].timestamp)
            /\ comicCache[k].timestamp <= now
    /\ \A c \in Calls :
         (pc[c] = "success" /\ log[c] # << >>)
         => /\ result[c].url = UrlOf(c)
            /\ result[c].html.page = UrlOf(c)

\* C13 witness: two invocations for one key that both missed, both fetched
\* and both stored, the second store after a time step.
C13_Witness ==
    /\ \A c \in Calls : pc[c] = "success" /\ log[c] # << >>
    /\ KeyOf(1) = KeyOf(2)
    /\ result[1].html.asOf # result[2].html.asOf
    /\ result[2].html.asOf - result[1].html.asOf <= REQUEST_TIMEOUT
    /\ result[1].html.asOf - result[2].html.asOf <= REQUEST_TIMEOUT
    /\ KeyOf(1) \in DOMAIN comicCache

\* C14: a step of a getComic invocation for key k (a hit, a miss, a success
\* or a failure) leaves the entry of every other key as it was: none is
\* created, overwritten or evicted; and a step of no invocation leaves the
\* whole cache as it was.
C14_OtherKeysUntouched ==
    [][/\ \A c \in Calls :
            pc'[c] # pc[c]
            => \A k \in (DOMAIN comicCache \cup DOMAIN comicCache') \ {KeyAfter(c)} :
                  /\ k \in DOMAIN comicCache
                  /\ k \in DOMAIN comicCache'
                  /\ comicCache'[k] = comicCache[k]
       /\ (\A c \in Calls : pc'[c] = pc[c]) => comicCache' = comicCache
      ]_vars

\* C14 witness: an invocation ran to its end for one key while the cache held
\* an expired entry of another key, which is still there.
C14_Witness ==
    \E c \in Calls, k \in DOMAIN comicCache :
        /\ pc[c] \in Terminal
        /\ log[c] # << >>
        /\ k # KeyOf(c)
        /\ now - comicCache[k].timestamp > CACHE_TTL

(***************************************************************************)
(* Claims about the credentialed client.                                   *)
(***************************************************************************)
\* C10 as stated: whenever a detail request sent with a credential is
\* answered 403, the credential is invalidated and exactly one additional
\* detail attempt is made before getComic settles: never zero, never more.
C10_Original ==
    \A r \in LogcCalls :
        ( /\ cpc[r] \in CredTerminal
          /\ response1[r].status = 403
          /\ cookies[r] # "" )
        => /\ cleared[r] # NoSession
           /\ Len(sent[r]) = 2

\* C10 amended: whenever the first response of a detail request is 403 and
\* the credential cache holds an entry when that response is handled, the
\* entry is discarded and one bootstrap request is issued; exactly one
\* additional detail attempt is made, carrying the credential that bootstrap
\* returned, when it returned one, and none when it returned none, in which
\* case the error of the 403 response is surfaced; when the cache holds no
\* entry at that moment, or the status is not 403, nothing is discarded and
\* no additional attempt is made.  No request makes more than one additional
\* attempt.
C10_RefreshOnForbidden ==
    /\ [][\A r \in LogcCalls :
            /\ (cpc[r] = "detail" /\ cpc'[r] # "detail" /\ response1'[r].status = 403
                  /\ sessionCache # NoSession)
               => /\ sessionCache' = NoSession
                  /\ cleared'[r] = sessionCache
                  /\ cpc'[r] = "refresh"
                  /\ boots'[r] = boots[r] + 1
                  /\ sent'[r] = sent[r]
            /\ (cpc[r] = "detail" /\ cpc'[r] # "detail"
                  /\ ~(response1'[r].status = 403 /\ sessionCache # NoSession))
               => /\ sessionCache' = sessionCache
                  /\ cpc'[r] \in { "text", "failed" }
                  /\ boots'[r] = boots[r]
            /\ (cpc[r] = "refresh" /\ cpc'[r] # "refresh" /\ newCookies'[r] # "")
               => /\ cpc'[r] = "retry"
                  /\ sent'[r] = Append(sent[r], newCookies'[r])
                  /\ boots'[r] = boots[r]
            /\ (cpc[r] = "refresh" /\ cpc'[r] # "refresh" /\ newCookies'[r] = "")
               => /\ cpc'[r] = "failed"
                  /\ sent'[r] = sent[r]
                  /\ cthrown'[r].status = 403
                  /\ boots'[r] = boots[r]
            /\ cpc[r] \in { "text", "retry", "retrytext", "success", "failed" }
               => (sent'[r] = sent[r] /\ boots'[r] = boots[r])
         ]_vars
    /\ [](\A r \in LogcCalls :
            /\ Len(sent[r]) <= 2
            /\ Len(sent[r]) = 2
               => (response1[r].status = 403 /\ cleared[r] # NoSession
                     /\ sent[r][2] = newCookies[r] /\ newCookies[r] # ""))

\* C10 witness: a request whose 403 discarded the cached credential and whose
\* one additional attempt carried another, newly issued credential.
C10_Witness ==
    \E r \in LogcCalls :
        /\ cpc[r] \in CredTerminal
        /\ response1[r].status = 403
        /\ cleared[r] # NoSession
        /\ Len(sent[r]) = 2
        /\ sent[r][1] = cleared[r].cookie
        /\ sent[r][2] # sent[r][1]

C12_ItemErrorRecord ==
    \A i \in 1..Len(comicRequests) :
        (bpc = "responded" /\ pc[i] = "failed")
        => /\ reply.body[i].kind = "error"
           /\ reply.body[i].comicId = comicRequests[i].comicId
           /\ reply.body[i].title = comicRequests[i].title
           /\ reply.body[i].error = thrown[i].message
           /\ reply.body[i].statusCode =
                 (IF answered[i] = 0 \/ (answered[i] >= 200 /\ answered[i] <= 299)
                  THEN 500 ELSE answered[i])

\* C12 witness: a batch answered with a 404 record and a 500 record.
C12_Witness ==
    /\ bpc = "responded"
    /\ Len(comicRequests) = 2
    /\ reply.body[1].kind = "error" /\ reply.body[1].statusCode = 404
    /\ reply.body[2].kind = "error" /\ reply.body[2].statusCode = 500
    /\ comicRequests[1] # comicRequests[2]

(***************************************************************************)
(* Claims about getComics.                                                 *)
(***************************************************************************)
\* The values the query holds under key, in order.
QueryValues(query, key) ==
    LET hits == SelectSeq(query, LAMBDA pair : pair[1] = key)
    IN  [i \in 1..Len(hits) |-> hits[i][2]]

\* The keys the defaults of the plain client define.
DefaultKeys ==
    { "addons", "list", "order", "format[]", "publisher[]", "date_type", "date" }

\* The value(s) the plain client sends under a default key the caller leaves out.
DefaultValues(key, t) ==
    CASE key = "addons" -> <<"1">>
      [] key = "list" -> <<"releases">>
      [] key = "order" -> <<"alpha-asc">>
      [] key = "format[]" -> <<"1", "3", "4", "5", "6">>
      [] key = "publisher[]" -> << >>
      [] key = "date_type" -> <<"week">>
      [] key = "date" -> <<getCurrentDate(t)>>

\* C15: the query getComics(filters) builds holds under every key the caller
\* supplies exactly the caller's value(s) (an array replaces the default
\* array wholesale, one entry per element, a number as its decimal string),
\* under every default key the caller leaves out exactly the default value,
\* and nothing under any other key.
C15_QueryMerge ==
    pureIn.of = "getComics"
    => LET params == pureIn.params
           query  == pureOut.query
       IN  /\ \A i \in 1..Len(params) :
                QueryValues(query, params[i].key) =
                   (IF params[i].value.kind = "array" THEN params[i].value.items
                    ELSE IF params[i].value.kind = "number"
                    THEN <<ToString(params[i].value.items[1])>>
                    ELSE params[i].value.items)
           /\ \A key \in DefaultKeys :
                ~HasKey(params, key)
                => QueryValues(query, key) = DefaultValues(key, pureIn.at)
           /\ \A j \in 1..Len(query) :
                query[j][1] \in DefaultKeys \/ HasKey(params, query[j][1])

\* C15 witness: a call that replaces the default format array by two formats,
\* passes a number and leaves the date to the default.
C15_Witness ==
    /\ pureIn.of = "getComics"
    /\ HasKey(pureIn.params, "format[]")
    /\ HasKey(pureIn.params, "page")
    /\ ~HasKey(pureIn.params, "date")
    /\ QueryValues(pureOut.query, "format[]") = <<"6", "1">>
    /\ QueryValues(pureOut.query, "page") = <<"2">>
    /\ QueryValues(pureOut.query, "date") = <<"1970-01-05">>

\* C16 as stated: every getComics call made without a caller-supplied date,
\* at any time, in the plain and in the credentialed client, sends as date
\* the current day at the time of the call.
C16_Original ==
    (pureIn.of \in { "getComics", "logcGetComics" } /\ ~HasKey(pureIn.params, "date"))
    => QueryValues(pureOut.query, "date") = <<getCurrentDate(pureIn.at)>>

(***************************************************************************)
(* Claims about the extraction.                                            *)
(***************************************************************************)
NoDuplicates(list) ==
    \A i, j \in 1..Len(list) : i # j => list[i] # list[j]

\* The entries of a list without those equal to an earlier entry.
RECURSIVE FirstOccurrences(_)
FirstOccurrences(list) ==
    IF list = << >> THEN << >>
    ELSE LET front == FirstOccurrences(SubSeq(list, 1, Len(list) - 1))
             last == list[Len(list)]
         IN  IF \E i \in 1..(Len(list) - 1) : list[i] = last
             THEN front ELSE Append(front, last)

\* C17 as stated: every Creator list extractComicDetails returns (the
\* top-level one and each story's) holds no two entries equal in name, role,
\* url and type, and holds every distinct extracted entry, in order of first
\* occurrence.
C17_Original ==
    (pureIn.of = "extractComicDetails" /\ pureOut.kind = "returned")
    => LET page == pureIn.htmlString
           told == SelectSeq(page.stories, LAMBDA st : Trim(st.title) # "")
       IN  /\ NoDuplicates(pureOut.value.creators)
           /\ pureOut.value.creators =
                 FirstOccurrences(Creators(page.creators, "creator")
                                  \o Creators(page.coverArtists, "cover"))
           /\ \A k \in 1..Len(pureOut.value.stories) :
                 /\ NoDuplicates(pureOut.value.stories[k].creators)
                 /\ pureOut.value.stories[k].creators =
                       FirstOccurrences(Creators(told[k].creators, "creator"))

\* The attribute denotes a nonzero id: it is present and reads, in base 10,
\* as an integer other than 0.
DenotesNonzero(attribute) ==
    /\ attribute.type = "string"
    /\ parseInt(attribute, 10).type = "number"
    /\ parseInt(attribute, 10).n # 0

\* C18 as stated: in every ComicData of extractComicData, parentId and
\* variantId are present exactly when the item's data-parent attribute is
\* present and denotes a nonzero id; then parentId is that integer and
\* variantId equals the entry's id; variantName is present only then.
C18_Original ==
    (pureIn.of = "extractComicData" /\ pureOut.kind = "returned")
    => \A i \in 1..Len(pureOut.value) :
          LET item == parseHtml(pureIn.htmlString).items[i]
              comic == pureOut.value[i]
          IN  /\ (comic.parentId # Undefined) <=> DenotesNonzero(item.dataParent)
              /\ (comic.variantId # Undefined) <=> DenotesNonzero(item.dataParent)
              /\ DenotesNonzero(item.dataParent)
                 => /\ comic.parentId = parseInt(item.dataParent, 10)
                    /\ comic.variantId = comic.id
              /\ comic.variantName # Undefined => DenotesNonzero(item.dataParent)

\* C19 as stated: whatever text the data attributes of a listing item hold,
\* id, pulls and community are non-negative integers, and are 0 when the
\* attribute is missing or does not parse.
C19_Original ==
    (pureIn.of = "extractComicData" /\ pureOut.kind = "returned")
    => \A i \in 1..Len(pureOut.value) :
          LET item == parseHtml(pureIn.htmlString).items[i]
              comic == pureOut.value[i]
              Holds(number, attribute) ==
                  /\ number.type = "number"
                  /\ number.n >= 0
                  /\ (attribute.type # "string" \/ parseInt(attribute, 0).type = "NaN")
                     => number = Num(0)
          IN  /\ Holds(comic.id, item.dataComic)
              /\ Holds(comic.pulls, item.dataPulls)
              /\ Holds(comic.community, item.dataCommunity)

C21_Original ==
    (pureIn.of = "extractTwice" /\ pureOut.second # NoOutcome)
    => pureOut.second = pureOut.first

(***************************************************************************)
(* Claims about the two caches.                                            *)
(***************************************************************************)
\* C22: the credential cache expires lazily and apart from the detail cache:
\* every credential attached to a detail request is, when the request goes
\* out, the cached credential and within its TTL; a lookup that finds a
\* credential within its TTL uses it and issues no bootstrap request; a
\* lookup that finds none within its TTL returns nothing from the cache,
\* issues a bootstrap request and leaves the cache as it is; no step changes
\* both caches, a step of the plain client leaves the state of the
\* credentialed client unchanged, and the reverse.
C22_CredentialCacheExpiry ==
    [][/\ \A r \in LogcCalls :
            /\ sent'[r] # sent[r]
               => \/ sent'[r][Len(sent'[r])] = ""
                  \/ /\ sessionCache'.cookie = sent'[r][Len(sent'[r])]
                     /\ now < sessionCache'.expiresAt
            /\ (cpc[r] = "idle" /\ cpc'[r] # "idle"
                  /\ sessionCache # NoSession /\ now < sessionCache.expiresAt)
               => /\ boots'[r] = boots[r]
                  /\ sent'[r] = <<sessionCache.cookie>>
                  /\ sessionCache' = sessionCache
            /\ (cpc[r] = "idle" /\ cpc'[r] # "idle"
                  /\ ~(sessionCache # NoSession /\ now < sessionCache.expiresAt))
               => /\ boots'[r] = boots[r] + 1
                  /\ sent'[r] = sent[r]
                  /\ sessionCache' = sessionCache
       /\ comicCache' # comicCache => UNCHANGED credVars
       /\ sessionCache' # sessionCache => UNCHANGED plainVars
       /\ plainVars' # plainVars => UNCHANGED credVars
      ]_vars

\* C22 witness: the second request found the first one's credential expired
\* in the cache, asked for a new one in vain and went out without credential,
\* the expired entry still in place, while the detail cache holds an entry.
C22_Witness ==
    /\ cpc[2] = "detail"
    /\ boots[2] = 1
    /\ sent[2] = <<"">>
    /\ sessionCache # NoSession
    /\ sessionCache.cookie = cookies[1]
    /\ sessionCache.expiresAt <= now
    /\ comicCache # << >>

(***************************************************************************)
(* Claims about parseComicPrice and parseHtml.                             *)
(***************************************************************************)
\* The digits and decimal points of s, in order.
DigitsAndPoints(s) ==
    LET at == SelectSeq([i \in 1..Len(s) |-> i],
                        LAMBDA i : IsDigit(SubSeq(s, i, i)) \/ SubSeq(s, i, i) = ".")
    IN  Join([k \in 1..Len(at) |-> SubSeq(s, at[k], at[k])], "")

\* The value a string of digits and decimal points reads as: the digits
\* before its first point and those between its first and second point; 0
\* when there are neither.
DecimalValue(kept) ==
    LET parts == Split(kept, ".")
        whole == parts[1]
        fraction == IF Len(parts) >= 2 THEN parts[2] ELSE ""
    IN  IF whole = "" /\ fraction = "" THEN Num(0)
        ELSE Float(FALSE, ValueOf(whole, 10), StripZeros(fraction))

\* C23: for every string parseComicPrice returns a number, never NaN, that is
\* not negative and equals the value of the substring made of the string's
\* digits and decimal points; it returns 0 for a string without a digit
\* (empty, white space only, or no numeric character at all).
C23_PriceParse ==
    pureIn.of = "parseComicPrice"
    => /\ pureOut.type = "number"
       /\ pureOut.n >= 0
       /\ ~StartsAt(pureOut.s, 1, "-")
       /\ pureOut = DecimalValue(DigitsAndPoints(pureIn.priceString))
       /\ (\A i \in 1..Len(pureIn.priceString) :
              ~IsDigit(SubSeq(pureIn.priceString, i, i)))
          => pureOut = Num(0)

\* C23 witness: a negative-looking price with currency sign and trailing
\* zero parses to its digits' value.
C23_Witness ==
    /\ pureIn.of = "parseComicPrice"
    /\ pureIn.priceString = "-$.40"
    /\ pureOut = Float(FALSE, 0, "4")

\* C24 as stated: for every input string, no ">" of the result of parseHtml
\* is followed by one or more white space characters and then "<".
C24_Original ==
    pureIn.of = "parseHtml"
    => \A i \in 1..Len(pureOut.html) :
          ~ /\ SubSeq(pureOut.html, i, i) = ">"
            /\ SpaceEnd(pureOut.html, i + 1) >= i + 1
            /\ StartsAt(pureOut.html, SpaceEnd(pureOut.html, i + 1) + 1, "<")


(***************************************************************************)
(* Claims about failures, keys and hits of the detail cache.               *)
(***************************************************************************)
\* The invocation c gives up in this step.
Fails(c) == pc[c] # "failed" /\ pc'[c] = "failed"

\* The invocations that fetched the page of key k and stored it.
Fetchers(k) == { b \in Calls : pc[b] = "success" /\ log[b] # << >> /\ KeyOf(b) = k }

\* C25 as stated: a detail fetch that ends in failure leaves the detail
\* cache without an entry for its key.
C25_Original ==
    [][\A c \in Calls : Fails(c) => KeyOf(c) \notin DOMAIN comicCache']_vars

\* C25 amended: a detail fetch that ends in failure stores nothing: the step
\* in which it gives up leaves the cache as it was, and an entry found under
\* its key at that moment is the complete result of another
\* invocation for the same key that fetched successfully; when no such
\* invocation exists, the cache has no entry for the
\* key and the next call for that key issues a network request again.
C25_FailureNotCached ==
    [][/\ \A c \in Calls :
            Fails(c)
            => /\ comicCache' = comicCache
               /\ KeyOf(c) \in DOMAIN comicCache
                  => \E b \in Fetchers(KeyOf(c)) \ {c} :
                        comicCache[KeyOf(c)] =
                           [data |-> result[b], timestamp |-> result[b].html.asOf]
               /\ Fetchers(KeyOf(c)) = {} => KeyOf(c) \notin DOMAIN comicCache
       /\ \A c \in Calls :
            ( /\ Starts(c)
              /\ \E b \in Calls : pc[b] = "failed" /\ KeyOf(b) = KeyAfter(c)
              /\ Fetchers(KeyAfter(c)) = {} )
            => /\ pc'[c] = "fetch"
               /\ log'[c] = <<0>>
      ]_vars

\* C25 witness: an invocation gave up after its fourth attempt, the cache has
\* no entry for its key, and the next call for that key has issued a request.
C25_Witness ==
    /\ pc[1] = "failed"
    /\ Requested(1) = 4
    /\ KeyOf(2) = KeyOf(1)
    /\ KeyOf(1) \notin DOMAIN comicCache
    /\ pc[2] = "fetch"
    /\ log[2] = <<0>>
    /\ started[2] >= 7000


\* C26 as stated: every {html, url} getComic resolves with, from the cache or
\* from the network, has url equal to the URL this very call would request;
\* two calls that would request different URLs never share a cache key.
C26_Original ==
    \A c \in Calls :
        pc[c] = "success"
        => /\ result[c].url = UrlOf(c)
           /\ \A b \in Calls :
                 (pc[b] # "idle" /\ UrlOf(b) # UrlOf(c)) => KeyOf(b) # KeyOf(c)


\* The invocation c resolves from the cache in this step.
Hits(c) == Starts(c) /\ pc'[c] = "success"

\* C27: a cache hit leaves the whole cache as it was, the entry it reads and
\* its timestamp included; a timestamp is set only in the step that stores a
\* fetched result, to the time of that step, so an entry read by hits is
\* expired as soon as more than the TTL has passed since the fetch that
\* produced it; and an expired entry leaves the map only in the step of a
\* lookup of its own key, which then fetches.
C27_HitLeavesEntry ==
    [][/\ \A c \in Calls :
            Hits(c) => /\ comicCache' = comicCache
                       /\ result'[c] = comicCache[KeyAfter(c)].data
                       /\ now - comicCache[KeyAfter(c)].timestamp <= CACHE_TTL
       /\ \A k \in DOMAIN comicCache' :
            (k \notin DOMAIN comicCache \/ comicCache'[k] # comicCache[k])
            => /\ comicCache'[k].timestamp = now'
               /\ \E c \in Calls :
                     /\ pc[c] = "body"
                     /\ pc'[c] = "success"
                     /\ KeyOf(c) = k
                     /\ comicCache'[k].data = result'[c]
       /\ \A k \in DOMAIN comicCache :
            (IsExpired(comicCache[k], now) /\ k \notin DOMAIN comicCache')
            => \E c \in Calls : Starts(c) /\ KeyAfter(c) = k
       /\ \A c \in Calls :
            ( /\ Starts(c)
              /\ KeyAfter(c) \in DOMAIN comicCache
              /\ IsExpired(comicCache[KeyAfter(c)], now) )
            => pc'[c] = "fetch"
      ]_vars

\* C27 witness: an entry stored at time 0 was read by a hit, and is expired
\* and still in the map more than the TTL after its fetch.
C27_Witness ==
    \E c \in Calls, k \in DOMAIN comicCache :
        /\ pc[c] = "success"
        /\ log[c] = << >>
        /\ KeyOf(c) = k
        /\ result[c] = comicCache[k].data
        /\ comicCache[k].timestamp = 0
        /\ now > CACHE_TTL


(***************************************************************************)
(* Claims about invalidation and failures of the credentialed client.      *)
(***************************************************************************)
\* C28 as stated: under any interleaving of concurrent detail requests, the
\* credential a request invalidates on a 403 is the credential this request
\* itself sent, and a request that sent no credential never invalidates one.
C28_Original ==
    \A r \in LogcCalls :
        cleared[r] # NoSession
        => /\ cookies[r] # ""
           /\ cleared[r].cookie = cookies[r]


\* The request r was answered 403 while the cache held a credential: it
\* discarded the credential and asked for a fresh one.
Refreshed(r) == cleared[r] # NoSession

\* C29 as stated: when the one extra attempt after a 403 also fails, or
\* cannot be made because no fresh credential was obtained, the error
\* surfaced carries the status of the first (403) response.
C29_Original ==
    \A r \in LogcCalls :
        (cpc[r] = "failed" /\ Refreshed(r)) => cthrown[r].status = 403

\* C29 amended: when the one extra attempt after a 403 is answered with a
\* non-2xx status, or cannot be made because no fresh credential was
\* obtained, the error surfaced is the one built from the first response,
\* with status 403, never one with the status of the retry response; when
\* the extra attempt was sent and its fetch or its body read throws, the
\* error thrown is surfaced as it is, with no status.
C29_FirstStatusSurfaced ==
    /\ \A r \in LogcCalls :
         (cpc[r] = "failed" /\ Refreshed(r))
         => /\ response1[r].status = 403
            /\ \/ cthrown[r] = HttpError(response1[r])
               \/ /\ Len(sent[r]) = 2
                  /\ cthrown[r] = NetworkError("fetch failed")
            /\ newCookies[r] = "" => /\ Len(sent[r]) = 1
                                     /\ cthrown[r] = HttpError(response1[r])
    /\ [][\A r \in LogcCalls, response \in LogcResponses :
            (RetryResponds(r, response) /\ ~ResponseOk(response))
            => /\ cpc'[r] = "failed"
               /\ cthrown'[r].status = 403
               /\ cthrown'[r] = HttpError(response1[r])
         ]_vars

\* C29 witness: one request whose extra attempt was sent with a fresh
\* credential and failed with the first response's 403, and one whose extra
\* attempt could not be made and failed with its first response's 403.
C29_Witness ==
    \E r, q \in LogcCalls :
        /\ cpc[r] = "failed" /\ cpc[q] = "failed"
        /\ Refreshed(r) /\ Refreshed(q)
        /\ Len(sent[r]) = 2 /\ sent[r][2] = newCookies[r] /\ newCookies[r] # ""
        /\ cthrown[r].status = 403
        /\ Len(sent[q]) = 1 /\ newCookies[q] = ""
        /\ cthrown[q].status = 403


\* The first getSessionCookie of r returns in this step without a credential:
\* its bootstrap request threw, was answered non-2xx, or set no cookie.
LookupFails(r) == cpc[r] = "session" /\ cpc'[r] # "session" /\ cookies'[r] = ""

\* C30 as stated: a failure to obtain a session credential never fails the
\* detail request by itself and never changes the credential cache; the
\* lookup returns an empty credential and the detail request is still sent
\* exactly once, without a credential.
C30_Original ==
    /\ [][\A r \in LogcCalls :
            LookupFails(r) => /\ sessionCache' = sessionCache
                              /\ cpc'[r] = "detail"
                              /\ sent'[r] = <<"">>
         ]_vars
    /\ [](\A r \in LogcCalls :
            (boots[r] > 0 /\ cookies[r] = "" /\ cpc[r] \in CredTerminal)
            => sent[r] = <<"">>)

====
